---- MODULE Spec2Model ----
(***************************************************************************)
(* Model of the cut-detection engine of premiere-auto-edit:                *)
(* AutoCutDetector (generators/AutoCutDetector.js) and the SpeechAnalyzer  *)
(* it calls, and of the exporter PremiereIntegration                       *)
(* (premiere/PremiereIntegration.js), which has its own unit of time,      *)
(* described where it starts.                                              *)
(*                                                                         *)
(* Numbers.  The source works on JavaScript doubles.  Times are modelled   *)
(* as integers counting ticks of 0.05 s (20 ticks per second), which makes *)
(* every time constant of the source an integer: 0.05 s = 1, 0.1 s = 2,    *)
(* 0.3 s = 6, 0.5 s = 10, 1.0 s = 20, 2.0 s = 40.  Confidences are         *)
(* modelled as integers counting hundredths (0.6 = 60); a confidence that  *)
(* the source computes by a division is floored to the hundredth, which    *)
(* keeps every comparison against a constant of the source exact.          *)
(*                                                                         *)
(* A candidate is a record [start, end, duration, type, reason,            *)
(* confidence, isMarker].  reason, a string the source builds by           *)
(* concatenation with " + ", is the sequence of the concatenated parts.    *)
(* isMarker, absent (undefined) on most candidates of the source, is FALSE *)
(* there.  The metadata field, which no stage reads, is left out.          *)
(***************************************************************************)
EXTENDS Integers, Sequences, FiniteSets, TLC

VARIABLES
    config,             \* this.config of AutoCutDetector / SpeechAnalyzer
    videoAnalysis,      \* detectCuts argument: [duration, silences, sceneChanges]
    speechAnalysis,     \* detectCuts argument: [fillerWords, segments]
    learnedStyle,       \* detectCuts argument: NoStyle or [sceneChangeCorrelation]
    mergeThreshold,     \* mergeCutCandidates argument
    rawCandidates,      \* detectCuts local
    allCandidates,      \* detectCuts local: the list handed to mergeCutCandidates
    mergedCandidates,   \* detectCuts local: result of mergeCutCandidates
    remergedCandidates, \* result of mergeCutCandidates applied to mergedCandidates
    filteredCandidates, \* detectCuts local
    cutCandidates,      \* detectCuts result (styledCandidates)
    keepClips,          \* detectCuts result
    stats,              \* detectCuts result
    minimumConfidence,  \* filterCutCandidates argument (minConfidence)
    captions,           \* exportAll argument: the caption list
    files,              \* the artifacts exportAll has written so far
    xml,                \* exportAll local: result of generateProjectXML
    edl,                \* exportAll local: result of generateEDL
    captionData,        \* result of generateCaptionBase64(captions[1].text)
    heap,               \* the candidate objects: object reference -> fields
    inputRefs,          \* the array a transformation stage is called with
    resultRefs,         \* the array the stage returns
    silences,           \* detectSilence local: the list the stderr callback fills
    silenceResult,      \* what the promise of detectSilence resolved with
    options,            \* processVideo argument
    step,               \* processVideo: the step that is running
    started,            \* processVideo: the steps started so far, in order
    attempt,            \* transcribeSingleFile local
    lastError,          \* transcribeSingleFile local
    tempFiles,          \* the files in VideoAnalyzer.tempDir
    cleanupCalls,       \* number of calls of VideoAnalyzer.cleanup
    outcome,            \* how the promise of processVideo settled
    pc                  \* position of the call being modelled

vars == <<config, videoAnalysis, speechAnalysis, learnedStyle, mergeThreshold,
          rawCandidates, allCandidates, mergedCandidates, remergedCandidates,
          filteredCandidates, cutCandidates, keepClips, stats, minimumConfidence,
          captions, files, xml, edl, captionData, heap, inputRefs, resultRefs,
          silences, silenceResult, options, step, started, attempt, lastError,
          tempFiles, cleanupCalls, outcome, pc>>

\* The state of an export, which the cut-detection steps leave alone
exportVars == <<captions, files, xml, edl, captionData>>

\* The state of a stage call on object references
heapVars == <<heap, inputRefs, resultRefs>>

\* The state of a detectSilence call
silenceVars == <<silences, silenceResult>>

\* The state of a processVideo call
pipelineVars == <<options, step, started, attempt, lastError, tempFiles,
                  cleanupCalls, outcome>>

\* What the cut detection and the export leave alone
callVars == <<heapVars, silenceVars, pipelineVars>>

---------------------------------------------------------------------------
(* Bounds of the model *)

MaxSlot == 3        \* input times of detectCuts are 7 * (0..MaxSlot) ticks
MaxSilences == 1    \* silences per video
MaxFillers == 1     \* filler words per video
MaxScenes == 1      \* scene changes per video
MaxSegments == 1    \* speech segments per video
MaxWords == 2       \* words per segment
MaxItems == 3       \* silences, filler words, scene changes and segments per video
MaxTime == 3        \* times of the candidate lists given to a single stage: 0..MaxTime
MaxLen == 3         \* length of the candidate lists given to a single stage
MaxThreshold == 1   \* merge thresholds given to mergeCutCandidates: 0..MaxThreshold
MaxMinClip == 2     \* minClipDuration given to generateKeepClips: 0..MaxMinClip
MaxNarrowChars == 3  \* one-byte characters at the head of a caption text
MaxWideChars == 101  \* three-byte characters after them
MaxClips == 2       \* keep clips given to exportAll

---------------------------------------------------------------------------
(* Program constants, in ticks and hundredths *)

DefaultMergeThreshold == 6     \* mergeThreshold = 0.3
DefaultMinConfidence == 50     \* minConfidence = 0.5
DefaultSceneChangeBuffer == 1  \* sceneChangeBuffer || 0.05
FillerConfidence == 70         \* confidence: 0.7
SceneChangeConfidence == 60    \* confidence: 0.6
TicksPerMinute == 1200         \* the 60 of (words.length / duration) * 60, in ticks

---------------------------------------------------------------------------
(* Helpers *)

Max(a, b) == IF a >= b THEN a ELSE b

Min(a, b) == IF a <= b THEN a ELSE b

Range(s) == {s[i] : i \in 1..Len(s)}

RECURSIVE SumSeq(_)
SumSeq(s) == IF Len(s) = 0 THEN 0 ELSE Head(s) + SumSeq(Tail(s))

\* [f(s[1]), ..., f(s[n])]
MapSeq(s, f(_)) == [i \in 1..Len(s) |-> f(s[i])]

RECURSIVE FlattenSeq(_)
FlattenSeq(ss) ==
    IF Len(ss) = 0 THEN <<>>
    ELSE IF Len(ss) = 1 THEN ss[1]
    ELSE LET half == Len(ss) \div 2
         IN FlattenSeq(SubSeq(ss, 1, half)) \o FlattenSeq(SubSeq(ss, half + 1, Len(ss)))

\* All sequences over S of length at most n
SeqsUpTo(S, n) == UNION {[1..k -> S] : k \in 0..n}

IsSortedByStart(s) == \A i \in 1..Len(s) - 1 : s[i].start <= s[i + 1].start

\* Array.prototype.sort((a, b) => a.start - b.start): stable, ascending by start
RECURSIVE InsertByStart(_, _)
InsertByStart(sorted, c) ==
    IF Len(sorted) = 0 THEN <<c>>
    ELSE IF sorted[Len(sorted)].start <= c.start THEN Append(sorted, c)
    ELSE Append(InsertByStart(SubSeq(sorted, 1, Len(sorted) - 1), c),
                sorted[Len(sorted)])

RECURSIVE SortByStart(_)
SortByStart(s) ==
    IF Len(s) = 0 THEN <<>>
    ELSE InsertByStart(SortByStart(SubSeq(s, 1, Len(s) - 1)), s[Len(s)])

---------------------------------------------------------------------------
(* AutoCutDetector.generateCutCandidates *)

\* Variant: the limits 0.5, 1.0 and 2.0 belong to the lower step
calculateSilenceConfidenceInclusive(duration) ==
    IF duration <= 10 THEN 30
    ELSE IF duration <= 20 THEN 60
    ELSE IF duration <= 40 THEN 80
    ELSE 95

calculateSilenceConfidence(duration) ==
    IF duration < 10 THEN 30
    ELSE IF duration < 20 THEN 60
    ELSE IF duration < 40 THEN 80
    ELSE 95

SilenceCandidate(silence) ==
    [start |-> silence.start, end |-> silence.end, duration |-> silence.duration,
     type |-> "silence", reason |-> <<"silence">>,
     confidence |-> calculateSilenceConfidence(silence.duration),
     isMarker |-> FALSE]

FillerCandidate(filler, cfg) ==
    [start |-> Max(0, filler.start - cfg.autoCut.cutBuffer),
     end |-> filler.end + cfg.autoCut.cutBuffer,
     duration |-> filler.end - filler.start,
     type |-> "filler", reason |-> <<"filler">>,
     confidence |-> FillerConfidence,
     isMarker |-> FALSE]

\* this.config.autoCut.sceneChangeBuffer || 0.05: a missing or zero buffer is 0.05
SceneChangeBuffer(cfg) ==
    IF cfg.autoCut.sceneChangeBuffer = 0 THEN DefaultSceneChangeBuffer
    ELSE cfg.autoCut.sceneChangeBuffer

SceneChangeCandidate(sceneTime, cfg) ==
    LET useAscut == cfg.autoCut.useSceneChangesForCuts
        buffer == SceneChangeBuffer(cfg)
    IN [start |-> IF useAscut THEN Max(0, sceneTime - buffer) ELSE sceneTime,
        end |-> IF useAscut THEN sceneTime + buffer ELSE sceneTime,
        duration |-> IF useAscut THEN buffer * 2 ELSE 0,
        type |-> "scene_change", reason |-> <<"scene_change">>,
        confidence |-> SceneChangeConfidence,
        isMarker |-> ~useAscut]

generateCutCandidates(va, sa, cfg) ==
    LET LongEnough(silence) == silence.duration >= cfg.autoCut.silenceMinDuration
        FromFiller(filler) == FillerCandidate(filler, cfg)
        FromScene(sceneTime) == SceneChangeCandidate(sceneTime, cfg)
        candidates ==
            MapSeq(SelectSeq(va.silences, LongEnough), SilenceCandidate)
            \o MapSeq(sa.fillerWords, FromFiller)
            \o MapSeq(va.sceneChanges, FromScene)
    IN SortByStart(candidates)

---------------------------------------------------------------------------
(* SpeechAnalyzer: the advanced candidates appended by detectCuts.         *)
(* A segment is [start, end, words, text]; a word is [start, end]; a text  *)
(* is the sequence of its lexical units: "!" and "?" (one character each,  *)
(* full or half width), "ee" (a filler word of the list in                 *)
(* estimateSentiment, two characters) and "c" (any other character).       *)

\* wordsPerMinute < minWPM, for wordsPerMinute = (n / duration) * 60
TooSlow(n, duration, minWPM) == duration > 0 /\ n * TicksPerMinute < minWPM * duration

\* wordsPerMinute > maxWPM; a zero duration makes wordsPerMinute Infinity
TooFast(n, duration, maxWPM) == duration = 0 \/ n * TicksPerMinute > maxWPM * duration

calculateSpeechRateConfidence(n, duration, minWPM, maxWPM) ==
    LET normalRange == maxWPM - minWPM
    IN IF duration = 0 THEN 90
       ELSE IF TooSlow(n, duration, minWPM)
       THEN Min(90, 50 + (40 * (minWPM * duration - n * TicksPerMinute))
                             \div (duration * normalRange))
       ELSE Min(90, 50 + (40 * (n * TicksPerMinute - maxWPM * duration))
                             \div (duration * normalRange))

analyzeSpeechRate(sa, cfg) ==
    LET rate == cfg.advancedDetection.speechRateAnalysis
        Abnormal(segment) ==
            /\ Len(segment.words) # 0
            /\ \/ TooSlow(Len(segment.words), segment.end - segment.start, rate.minWPM)
               \/ TooFast(Len(segment.words), segment.end - segment.start, rate.maxWPM)
        FromSegment(segment) ==
            [start |-> segment.start, end |-> segment.end,
             duration |-> segment.end - segment.start,
             type |-> "speech_rate", reason |-> <<"speech_rate">>,
             confidence |-> calculateSpeechRateConfidence(
                                Len(segment.words), segment.end - segment.start,
                                rate.minWPM, rate.maxWPM),
             isMarker |-> FALSE]
    IN IF ~rate.enabled THEN <<>>
       ELSE MapSeq(SelectSeq(sa.segments, Abnormal), FromSegment)

calculatePauseConfidence(duration, minDuration, maxDuration) ==
    Min(90, 50 + (40 * (duration - minDuration)) \div (maxDuration - minDuration))

detectPauses(sa, cfg) ==
    LET pause == cfg.advancedDetection.pauseDetection
        WordsOf(segment) == segment.words
        allWords == FlattenSeq(MapSeq(sa.segments, WordsOf))
        Gap(i) == allWords[i].start - allWords[i - 1].end
        InRange(i) == Gap(i) >= pause.minDuration /\ Gap(i) <= pause.maxDuration
        FromGap(i) ==
            [start |-> Max(0, allWords[i - 1].end - pause.bufferBefore),
             end |-> allWords[i].start + pause.bufferAfter,
             duration |-> Gap(i) + pause.bufferBefore + pause.bufferAfter,
             type |-> "pause", reason |-> <<"pause">>,
             confidence |-> calculatePauseConfidence(
                                Gap(i), pause.minDuration, pause.maxDuration),
             isMarker |-> FALSE]
        indices == [i \in 1..Len(allWords) - 1 |-> i + 1]
    IN IF ~pause.enabled THEN <<>>
       ELSE MapSeq(SelectSeq(indices, InRange), FromGap)

CountOf(text, units) == Cardinality({i \in 1..Len(text) : text[i] \in units})

\* text.length: "ee" is two characters, every other unit one
TextLength(text) == Len(text) + CountOf(text, {"ee"})

\* [monotone, confidence] of estimateSentiment(text).  fillerRatio is
\* fillerCount / max(1, sentenceLength / 10).
estimateSentiment(text) ==
    LET emotionalScore == CountOf(text, {"!", "?"})
        fillerCount == CountOf(text, {"ee"})
        sentenceLength == TextLength(text)
        ratioAbove30 == IF sentenceLength <= 10 THEN fillerCount >= 1
                        ELSE 100 * fillerCount > 3 * sentenceLength
        ratio100 == IF sentenceLength <= 10 THEN 100 * fillerCount
                    ELSE (1000 * fillerCount) \div sentenceLength
        monotone == emotionalScore = 0 /\ ratioAbove30
    IN [monotone |-> monotone,
        confidence |-> IF monotone THEN Min(70, ratio100) ELSE 30]

analyzeSentiment(sa, cfg) ==
    LET Monotone(segment) == estimateSentiment(segment.text).monotone
        FromSegment(segment) ==
            [start |-> segment.start, end |-> segment.end,
             duration |-> segment.end - segment.start,
             type |-> "sentiment", reason |-> <<"sentiment">>,
             confidence |-> estimateSentiment(segment.text).confidence,
             isMarker |-> FALSE]
    IN IF ~cfg.advancedDetection.sentimentAnalysis.enabled THEN <<>>
       ELSE MapSeq(SelectSeq(sa.segments, Monotone), FromSegment)

\* analyzeAll(speechAnalysis).candidates
analyzeAll(sa, cfg) ==
    analyzeSpeechRate(sa, cfg) \o detectPauses(sa, cfg) \o analyzeSentiment(sa, cfg)

isAdvancedDetectionEnabled(cfg) ==
    \/ cfg.advancedDetection.speechRateAnalysis.enabled
    \/ cfg.advancedDetection.pauseDetection.enabled
    \/ cfg.advancedDetection.sentimentAnalysis.enabled

---------------------------------------------------------------------------
(* AutoCutDetector.mergeCutCandidates *)

\* Mutant of ShouldMerge: a gap equal to the threshold does not merge
ShouldMergeStrict(current, next, threshold) == next.start - current.end < threshold

\* next.start - current.end <= mergeThreshold
ShouldMerge(current, next, threshold) == next.start - current.end <= threshold

\* Mutant of MergeInto: the end of the accumulator becomes the end of next
MergeIntoLastEnd(current, next) ==
    [current EXCEPT !.end = next.end,
                    !.duration = next.end - current.start,
                    !.confidence = Max(current.confidence, next.confidence),
                    !.reason = current.reason \o next.reason]

\* The accumulator after next is merged into it
MergeInto(current, next) ==
    LET newEnd == Max(current.end, next.end)
    IN [current EXCEPT !.end = newEnd,
                       !.duration = newEnd - current.start,
                       !.confidence = Max(current.confidence, next.confidence),
                       !.reason = current.reason \o next.reason]

\* Mutant of FlushCurrent: the last accumulator is not pushed
FlushDropped(merged, current) == merged

\* merged.push(current) after the loop
FlushCurrent(merged, current) == Append(merged, current)

\* The loop from index i on, with the accumulator current and the entries
\* pushed so far, and the final flush
RECURSIVE MergeLoop(_, _, _, _, _)
MergeLoop(candidates, i, current, merged, threshold) ==
    IF i > Len(candidates) THEN FlushCurrent(merged, current)
    ELSE LET next == candidates[i]
         IN IF current.isMarker
            THEN MergeLoop(candidates, i + 1, next, Append(merged, current), threshold)
            ELSE IF ShouldMerge(current, next, threshold)
            THEN MergeLoop(candidates, i + 1, MergeInto(current, next), merged, threshold)
            ELSE MergeLoop(candidates, i + 1, next, Append(merged, current), threshold)

mergeCutCandidates(candidates, threshold) ==
    IF Len(candidates) = 0 THEN <<>>
    ELSE MergeLoop(candidates, 2, candidates[1], <<>>, threshold)

---------------------------------------------------------------------------
(* AutoCutDetector.filterCutCandidates, applyCutStyle *)

\* Mutant of filterCutCandidates: a confidence of exactly minConfidence is dropped
filterCutCandidatesStrict(candidates, minConfidence) ==
    LET Kept(candidate) == candidate.isMarker \/ candidate.confidence > minConfidence
    IN SelectSeq(candidates, Kept)

filterCutCandidates(candidates, minConfidence) ==
    LET Kept(candidate) == candidate.isMarker \/ candidate.confidence >= minConfidence
    IN SelectSeq(candidates, Kept)

\* A learned style is [present, hasCutPattern, sceneChangeCorrelation]: present is
\* FALSE for null; sceneChangeCorrelation is in hundredths, 0 for an absent
\* (falsy) factor
applyCutStyle(candidates, style) ==
    LET Adjusted(candidate) ==
            IF style.sceneChangeCorrelation # 0 /\ candidate.type = "scene_change"
            THEN [candidate EXCEPT
                    !.confidence = (@ * style.sceneChangeCorrelation) \div 100]
            ELSE candidate
    IN IF ~style.present \/ ~style.hasCutPattern THEN candidates
       ELSE MapSeq(candidates, Adjusted)

---------------------------------------------------------------------------
(* AutoCutDetector.generateKeepClips *)

KeepClip(start, end) == [start |-> start, end |-> end, duration |-> end - start]

IsActualCut(c) == ~c.isMarker

\* Mutant of LongEnoughClip: a gap of exactly minClipDuration is dropped
LongerThanMinClip(duration, cfg) == duration > cfg.autoCut.minClipDuration

\* duration >= this.config.autoCut.minClipDuration
LongEnoughClip(duration, cfg) == duration >= cfg.autoCut.minClipDuration

\* The loop over actualCuts from index i on, then the last clip
RECURSIVE KeepLoop(_, _, _, _, _, _)
KeepLoop(actualCuts, i, currentTime, clips, totalDuration, cfg) ==
    IF i > Len(actualCuts)
    THEN IF currentTime < totalDuration
            /\ LongEnoughClip(totalDuration - currentTime, cfg)
         THEN Append(clips, KeepClip(currentTime, totalDuration))
         ELSE clips
    ELSE LET cut == actualCuts[i]
             kept == IF cut.start > currentTime
                        /\ LongEnoughClip(cut.start - currentTime, cfg)
                     THEN Append(clips, KeepClip(currentTime, cut.start))
                     ELSE clips
         IN KeepLoop(actualCuts, i + 1, cut.end, kept, totalDuration, cfg)

\* Mutant of generateKeepClips: no special case for an empty list of actual cuts
generateKeepClipsNoSpecialCase(candidates, totalDuration, cfg) ==
    KeepLoop(SelectSeq(candidates, IsActualCut), 1, 0, <<>>, totalDuration, cfg)

generateKeepClips(candidates, totalDuration, cfg) ==
    LET actualCuts == SelectSeq(candidates, IsActualCut)
    IN IF Len(actualCuts) = 0
       THEN <<[start |-> 0, end |-> totalDuration, duration |-> totalDuration]>>
       ELSE KeepLoop(actualCuts, 1, 0, <<>>, totalDuration, cfg)

---------------------------------------------------------------------------
(* AutoCutDetector.generateStatistics.  Durations stay in ticks; the       *)
(* reduction rate, a percentage printed with two decimals, is in           *)
(* hundredths of a percent, rounded to the nearest.                        *)

DurationOf(c) == c.duration

CountType(cuts, t) == Cardinality({i \in 1..Len(cuts) : cuts[i].type = t})

\* Mutant of generateStatistics: the final duration is what the cuts leave of
\* the total duration
generateStatisticsByDifference(candidates, clips, totalDuration) ==
    LET actualCuts == SelectSeq(candidates, IsActualCut)
        totalCutDuration == SumSeq(MapSeq(actualCuts, DurationOf))
        totalKeepDuration == SumSeq(MapSeq(clips, DurationOf))
    IN [totalDuration |-> totalDuration,
        totalCuts |-> Len(actualCuts),
        totalKeepClips |-> Len(clips),
        totalCutDuration |-> totalCutDuration,
        totalKeepDuration |-> totalKeepDuration,
        reductionRate |-> (totalCutDuration * 20000 + totalDuration)
                              \div (2 * totalDuration),
        finalDuration |-> totalDuration - totalCutDuration,
        cutTypes |-> [silence |-> CountType(actualCuts, "silence"),
                      filler |-> CountType(actualCuts, "filler")]]

generateStatistics(candidates, clips, totalDuration) ==
    LET actualCuts == SelectSeq(candidates, IsActualCut)
        totalCutDuration == SumSeq(MapSeq(actualCuts, DurationOf))
        totalKeepDuration == SumSeq(MapSeq(clips, DurationOf))
    IN [totalDuration |-> totalDuration,
        totalCuts |-> Len(actualCuts),
        totalKeepClips |-> Len(clips),
        totalCutDuration |-> totalCutDuration,
        totalKeepDuration |-> totalKeepDuration,
        reductionRate |-> (totalCutDuration * 20000 + totalDuration)
                              \div (2 * totalDuration),
        finalDuration |-> totalKeepDuration,
        cutTypes |-> [silence |-> CountType(actualCuts, "silence"),
                      filler |-> CountType(actualCuts, "filler")]]

---------------------------------------------------------------------------
(* AutoCutDetector.detectCuts, as one step *)

\* The values of detectCuts' locals and result for the given arguments
DetectCutsRun(va, sa, style, cfg) ==
    LET raw == generateCutCandidates(va, sa, cfg)
        advanced == IF isAdvancedDetectionEnabled(cfg) THEN analyzeAll(sa, cfg) ELSE <<>>
        all == raw \o advanced
        merged == mergeCutCandidates(all, DefaultMergeThreshold)
        filtered == filterCutCandidates(merged, DefaultMinConfidence)
        styled == IF style.present THEN applyCutStyle(filtered, style) ELSE filtered
        clips == generateKeepClips(styled, va.duration, cfg)
    IN [rawCandidates |-> raw, allCandidates |-> all, mergedCandidates |-> merged,
        filteredCandidates |-> filtered, cutCandidates |-> styled, keepClips |-> clips,
        stats |-> generateStatistics(styled, clips, va.duration)]

NoStats == [totalDuration |-> 0, totalCuts |-> 0, totalKeepClips |-> 0,
            totalCutDuration |-> 0, totalKeepDuration |-> 0, reductionRate |-> 0,
            finalDuration |-> 0, cutTypes |-> [silence |-> 0, filler |-> 0]]

NoError == [status |-> 0, message |-> <<>>]

NoOutcome == [settled |-> FALSE]

\* No stage call on references, no detectSilence call and no processVideo
\* call has started
NoCalls ==
    /\ heap = <<>>
    /\ inputRefs = <<>>
    /\ resultRefs = <<>>
    /\ silences = <<>>
    /\ silenceResult = <<>>
    /\ options = [styleUrls |-> 0, styleName |-> FALSE]
    /\ step = "idle"
    /\ started = <<>>
    /\ attempt = 0
    /\ lastError = NoError
    /\ tempFiles = 0
    /\ cleanupCalls = 0
    /\ outcome = NoOutcome

NoResults ==
    /\ rawCandidates = <<>>
    /\ allCandidates = <<>>
    /\ mergedCandidates = <<>>
    /\ remergedCandidates = <<>>
    /\ filteredCandidates = <<>>
    /\ cutCandidates = <<>>
    /\ keepClips = <<>>
    /\ stats = NoStats

NoXml == [duration |-> 0, videoTrack |-> <<>>, captionTrack |-> <<>>,
          audioTrack |-> <<>>]

\* No export has started
NoExport ==
    /\ captions = <<>>
    /\ files = {}
    /\ xml = NoXml
    /\ edl = <<>>
    /\ captionData = <<>>

---------------------------------------------------------------------------
(* Inputs of detectCuts *)

Times == {7 * k : k \in 0..MaxSlot}

\* Lists in the order of the timeline, as ffmpeg and Whisper report them
Chronological(s) == \A i \in 1..Len(s) - 1 : s[i].end <= s[i + 1].start

\* silencedetect is run with d = silenceMinDuration (VideoAnalyzer.analyzeVideo),
\* so it reports no shorter silence
SilenceValues ==
    {x \in {[start |-> a, end |-> b, duration |-> b - a] : a, b \in Times} :
        x.duration >= 10}

WordValues == {w \in [start : Times, end : Times] : w.start <= w.end}

TextValues == {<<"c", "c", "c">>, <<"ee", "c">>}

WordLists == {ws \in SeqsUpTo({w \in WordValues : w.start < w.end}, MaxWords) :
                Chronological(ws)}

SegmentValues ==
    {g \in [start : Times, end : Times, words : WordLists, text : TextValues] :
        /\ g.start < g.end
        /\ \A i \in 1..Len(g.words) :
              g.start <= g.words[i].start /\ g.words[i].end <= g.end}

VideoAnalyses ==
    {va \in [duration : {7 * MaxSlot},
             silences : SeqsUpTo(SilenceValues, MaxSilences),
             sceneChanges : SeqsUpTo(Times, MaxScenes)] :
        /\ Chronological(va.silences)
        /\ \A i \in 1..Len(va.sceneChanges) - 1 :
              va.sceneChanges[i] < va.sceneChanges[i + 1]}

SpeechAnalyses ==
    {sa \in [fillerWords : SeqsUpTo(WordValues, MaxFillers),
             segments : SeqsUpTo(SegmentValues, MaxSegments)] :
        Chronological(sa.fillerWords) /\ Chronological(sa.segments)}

\* Configurations: the defaults of config/default.config.js, with the cut
\* buffer, the minimum clip length, the scene-change mode, the pause range
\* and the three advanced detectors varied
Configs ==
    {[autoCut |-> [silenceMinDuration |-> 10, cutBuffer |-> cb,
                   minClipDuration |-> 7, useSceneChangesForCuts |-> asCut,
                   sceneChangeBuffer |-> 1],
      advancedDetection |->
          [speechRateAnalysis |-> [enabled |-> rate, minWPM |-> 150, maxWPM |-> 250],
           pauseDetection |-> [enabled |-> pause, minDuration |-> 7,
                               maxDuration |-> 14, bufferBefore |-> 4,
                               bufferAfter |-> 4],
           sentimentAnalysis |-> [enabled |-> senti]]] :
        cb \in {0, 2}, asCut \in BOOLEAN, rate \in BOOLEAN, pause \in BOOLEAN,
        senti \in BOOLEAN}

Styles ==
    {[present |-> FALSE, hasCutPattern |-> FALSE, sceneChangeCorrelation |-> 0],
     [present |-> TRUE, hasCutPattern |-> TRUE, sceneChangeCorrelation |-> 50]}

Init ==
    /\ config \in Configs
    /\ videoAnalysis \in VideoAnalyses
    /\ speechAnalysis \in SpeechAnalyses
    /\ Len(videoAnalysis.silences) + Len(videoAnalysis.sceneChanges)
         + Len(speechAnalysis.fillerWords) + Len(speechAnalysis.segments) <= MaxItems
    /\ learnedStyle \in Styles
    /\ mergeThreshold = DefaultMergeThreshold
    /\ NoResults
    /\ minimumConfidence = DefaultMinConfidence
    /\ NoCalls
    /\ NoExport
    /\ pc = "start"

DetectCuts ==
    /\ pc = "start"
    /\ LET r == DetectCutsRun(videoAnalysis, speechAnalysis, learnedStyle, config)
       IN /\ rawCandidates' = r.rawCandidates
          /\ allCandidates' = r.allCandidates
          /\ mergedCandidates' = r.mergedCandidates
          /\ filteredCandidates' = r.filteredCandidates
          /\ cutCandidates' = r.cutCandidates
          /\ keepClips' = r.keepClips
          /\ stats' = r.stats
    /\ pc' = "done"
    /\ UNCHANGED <<callVars, minimumConfidence, exportVars, config, videoAnalysis, speechAnalysis, learnedStyle,
                   mergeThreshold, remergedCandidates>>

Next == DetectCuts

Spec == Init /\ [][Next]_vars

---------------------------------------------------------------------------
(* Properties of detectCuts *)

Overlap(a, b) == ~(a.end <= b.start \/ b.end <= a.start)

\* C1: the keep clips returned by detectCuts are sorted by start and pairwise
\* non-overlapping: each clip starts at or after the end of every clip before it
C1_KeepClipsSortedDisjoint ==
    pc = "done" =>
        \A i, j \in 1..Len(keepClips) :
            i < j => /\ keepClips[i].start <= keepClips[j].start
                     /\ keepClips[j].start >= keepClips[i].end

\* C2: no keep clip returned by detectCuts overlaps a returned non-marker cut
C2_KeepClipsAvoidCuts ==
    pc = "done" =>
        \A k \in Range(keepClips) : \A c \in Range(cutCandidates) :
            ~c.isMarker => (k.end <= c.start \/ c.end <= k.start)

\* C3: with useSceneChangesForCuts = false the keep clips do not depend on the
\* scene changes: they are those of the run on the same input without any
C3_MarkersNeverCut ==
    (pc = "done" /\ ~config.autoCut.useSceneChangesForCuts) =>
        keepClips = DetectCutsRun([videoAnalysis EXCEPT !.sceneChanges = <<>>],
                                  speechAnalysis, learnedStyle, config).keepClips

\* C5: the list detectCuts hands to mergeCutCandidates and the list it returns
\* are sorted by start
C5_CandidatesSorted ==
    pc = "done" => IsSortedByStart(allCandidates) /\ IsSortedByStart(cutCandidates)

\* The total length of the gaps generateKeepClips drops for being shorter than
\* minClipDuration: the complement of the keep clips in the gaps it walks
RECURSIVE DroppedLength(_, _, _, _, _)
DroppedLength(actualCuts, i, currentTime, totalDuration, cfg) ==
    IF i > Len(actualCuts)
    THEN IF currentTime < totalDuration
            /\ totalDuration - currentTime < cfg.autoCut.minClipDuration
         THEN totalDuration - currentTime ELSE 0
    ELSE (IF actualCuts[i].start > currentTime
             /\ actualCuts[i].start - currentTime < cfg.autoCut.minClipDuration
          THEN actualCuts[i].start - currentTime ELSE 0)
         + DroppedLength(actualCuts, i + 1, actualCuts[i].end, totalDuration, cfg)

\* C6: keep durations + non-marker cut durations + dropped gaps = total duration
C6_CoverageAccounting ==
    pc = "done" =>
        SumSeq(MapSeq(keepClips, DurationOf))
        + SumSeq(MapSeq(SelectSeq(cutCandidates, IsActualCut), DurationOf))
        + (IF \E c \in Range(cutCandidates) : ~c.isMarker
           THEN DroppedLength(SelectSeq(cutCandidates, IsActualCut), 1, 0,
                              videoAnalysis.duration, config)
           ELSE 0)
        = videoAnalysis.duration

---------------------------------------------------------------------------
(* The stages called on their own.  The candidate lists are built from the *)
(* candidates generateCutCandidates makes, on the times 0..MaxTime, and    *)
(* are sorted by start.                                                    *)

\* config/default.config.js
DefaultConfig ==
    [autoCut |-> [silenceMinDuration |-> 10, cutBuffer |-> 2,
                  minClipDuration |-> 20, useSceneChangesForCuts |-> TRUE,
                  sceneChangeBuffer |-> 1],
     advancedDetection |->
         [speechRateAnalysis |-> [enabled |-> FALSE, minWPM |-> 150, maxWPM |-> 250],
          pauseDetection |-> [enabled |-> FALSE, minDuration |-> 20,
                              maxDuration |-> 60, bufferBefore |-> 4,
                              bufferAfter |-> 4],
          sentimentAnalysis |-> [enabled |-> FALSE]]]

WithAutoCut(cutBuffer, minClipDuration, useAscut) ==
    [DefaultConfig EXCEPT !.autoCut.cutBuffer = cutBuffer,
                          !.autoCut.minClipDuration = minClipDuration,
                          !.autoCut.useSceneChangesForCuts = useAscut]

EmptyVideo == [duration |-> 0, silences |-> <<>>, sceneChanges |-> <<>>]

EmptySpeech == [fillerWords |-> <<>>, segments |-> <<>>]

AbsentStyle == [present |-> FALSE, hasCutPattern |-> FALSE, sceneChangeCorrelation |-> 0]

StageTimes == 0..MaxTime

SilenceCuts ==
    {SilenceCandidate([start |-> a, end |-> b, duration |-> b - a]) :
        a \in StageTimes, b \in StageTimes} \ {c \in
    {SilenceCandidate([start |-> a, end |-> b, duration |-> b - a]) :
        a \in StageTimes, b \in StageTimes} : c.end <= c.start}

\* Filler candidates widened by a cut buffer of one tick
FillerCuts ==
    {FillerCandidate(w, WithAutoCut(1, 0, FALSE)) :
        w \in {x \in [start : StageTimes, end : StageTimes] :
                  x.start <= x.end /\ x.end < MaxTime}}

Markers == {SceneChangeCandidate(t, WithAutoCut(1, 0, FALSE)) : t \in StageTimes}

SortedLists(values) == {L \in SeqsUpTo(values, MaxLen) : IsSortedByStart(L)}

InitMerge ==
    /\ allCandidates \in SortedLists(SilenceCuts \cup FillerCuts \cup Markers)
    /\ mergeThreshold \in 0..MaxThreshold
    /\ config = DefaultConfig
    /\ videoAnalysis = EmptyVideo
    /\ speechAnalysis = EmptySpeech
    /\ learnedStyle = AbsentStyle
    /\ rawCandidates = <<>>
    /\ mergedCandidates = <<>>
    /\ remergedCandidates = <<>>
    /\ filteredCandidates = <<>>
    /\ cutCandidates = <<>>
    /\ keepClips = <<>>
    /\ stats = NoStats
    /\ minimumConfidence = DefaultMinConfidence
    /\ NoCalls
    /\ NoExport
    /\ pc = "merge"

\* mergeCutCandidates(allCandidates, mergeThreshold)
Merge ==
    /\ pc = "merge"
    /\ mergedCandidates' = mergeCutCandidates(allCandidates, mergeThreshold)
    /\ pc' = "merged"
    /\ UNCHANGED <<callVars, minimumConfidence, exportVars, config, videoAnalysis, speechAnalysis, learnedStyle, mergeThreshold,
                   rawCandidates, allCandidates, remergedCandidates,
                   filteredCandidates, cutCandidates, keepClips, stats>>

\* mergeCutCandidates(mergedCandidates, mergeThreshold)
MergeAgain ==
    /\ pc = "merged"
    /\ remergedCandidates' = mergeCutCandidates(mergedCandidates, mergeThreshold)
    /\ pc' = "remerged"
    /\ UNCHANGED <<callVars, minimumConfidence, exportVars, config, videoAnalysis, speechAnalysis, learnedStyle, mergeThreshold,
                   rawCandidates, allCandidates, mergedCandidates,
                   filteredCandidates, cutCandidates, keepClips, stats>>

NextMerge == Merge \/ MergeAgain

SpecMerge == InitMerge /\ [][NextMerge]_vars

\* Scenario A of the specification, in seconds: cuts (10,15) and (50,52) of a
\* video of 100 s with minClipDuration = 1
ScenarioCuts ==
    <<SilenceCandidate([start |-> 10, end |-> 15, duration |-> 5]),
      SilenceCandidate([start |-> 50, end |-> 52, duration |-> 2])>>

InitKeep ==
    /\ \/ /\ cutCandidates \in SortedLists(SilenceCuts \cup Markers)
          /\ videoAnalysis \in {[EmptyVideo EXCEPT !.duration = t] : t \in 0..MaxTime + 1}
          /\ config \in {WithAutoCut(2, m, FALSE) : m \in 0..MaxMinClip}
       \/ /\ cutCandidates = ScenarioCuts
          /\ videoAnalysis = [EmptyVideo EXCEPT !.duration = 100]
          /\ config = WithAutoCut(2, 1, FALSE)
    /\ speechAnalysis = EmptySpeech
    /\ learnedStyle = AbsentStyle
    /\ mergeThreshold = DefaultMergeThreshold
    /\ rawCandidates = <<>>
    /\ allCandidates = <<>>
    /\ mergedCandidates = <<>>
    /\ remergedCandidates = <<>>
    /\ filteredCandidates = <<>>
    /\ keepClips = <<>>
    /\ stats = NoStats
    /\ minimumConfidence = DefaultMinConfidence
    /\ NoCalls
    /\ NoExport
    /\ pc = "keep"

\* generateKeepClips(cutCandidates, videoAnalysis.duration)
GenerateKeepClips ==
    /\ pc = "keep"
    /\ keepClips' = generateKeepClips(cutCandidates, videoAnalysis.duration, config)
    /\ pc' = "kept"
    /\ UNCHANGED <<callVars, minimumConfidence, exportVars, config, videoAnalysis, speechAnalysis, learnedStyle, mergeThreshold,
                   rawCandidates, allCandidates, mergedCandidates, remergedCandidates,
                   filteredCandidates, cutCandidates, stats>>

\* generateStatistics(cutCandidates, keepClips, videoAnalysis.duration)
GenerateStatistics ==
    /\ pc = "kept"
    /\ videoAnalysis.duration > 0
    /\ stats' = generateStatistics(cutCandidates, keepClips, videoAnalysis.duration)
    /\ pc' = "counted"
    /\ UNCHANGED <<callVars, minimumConfidence, exportVars, config, videoAnalysis, speechAnalysis, learnedStyle, mergeThreshold,
                   rawCandidates, allCandidates, mergedCandidates, remergedCandidates,
                   filteredCandidates, cutCandidates, keepClips>>

NextKeep == GenerateKeepClips \/ GenerateStatistics

SpecKeep == InitKeep /\ [][NextKeep]_vars

---------------------------------------------------------------------------
(* Properties of mergeCutCandidates *)

IsMarker(c) == c.isMarker

\* C4: mergeCutCandidates never merges a marker: every marker of the input is
\* an entry of the output, unchanged, and the output has as many markers
C4_MarkersPassThrough ==
    pc = "merged" =>
        /\ \A i \in 1..Len(allCandidates) :
              allCandidates[i].isMarker => allCandidates[i] \in Range(mergedCandidates)
        /\ Len(SelectSeq(mergedCandidates, IsMarker))
               = Len(SelectSeq(allCandidates, IsMarker))

\* C7: two non-marker candidates sorted by start come back as one merged entry
\* exactly when the gap between them is at most the threshold, and as the two
\* entries given otherwise
C7_MergeThresholdBoundary ==
    (/\ pc = "merged"
     /\ Len(allCandidates) = 2
     /\ ~allCandidates[1].isMarker
     /\ ~allCandidates[2].isMarker) =>
        LET gap == allCandidates[2].start - allCandidates[1].end
        IN /\ (Len(mergedCandidates) = 1) <=> (gap <= mergeThreshold)
           /\ gap > mergeThreshold => mergedCandidates = allCandidates

C7_Witness ==
    /\ pc = "merged"
    /\ Len(allCandidates) = 2
    /\ ~allCandidates[1].isMarker
    /\ ~allCandidates[2].isMarker
    /\ mergeThreshold > 0
    /\ allCandidates[2].start - allCandidates[1].end = mergeThreshold
    /\ Len(mergedCandidates) = 1

\* C8: merging the result of a merge again returns it unchanged
C8_MergeIdempotent ==
    pc = "remerged" => remergedCandidates = mergedCandidates

C8_Witness ==
    /\ pc = "remerged"
    /\ \E c \in Range(allCandidates) : c.isMarker
    /\ Len(mergedCandidates) >= 2
    /\ Len(mergedCandidates) < Len(allCandidates)
    /\ remergedCandidates = mergedCandidates

---------------------------------------------------------------------------
(* Properties of generateKeepClips *)

\* C9: without any non-marker candidate the keep clips are the one clip
\* [0, totalDuration], whatever minClipDuration
C9_ZeroCutsOneClip ==
    (pc = "kept" /\ \A c \in Range(cutCandidates) : c.isMarker) =>
        keepClips = <<[start |-> 0, end |-> videoAnalysis.duration,
                       duration |-> videoAnalysis.duration]>>

C9_Witness ==
    /\ pc = "kept"
    /\ Len(cutCandidates) > 0
    /\ \A c \in Range(cutCandidates) : c.isMarker
    /\ videoAnalysis.duration < config.autoCut.minClipDuration
    /\ Len(keepClips) = 1

\* The spans between the cuts: before the first cut, between each cut's end and
\* the next cut's start, and after the last cut
SpansBetween(cuts, totalDuration) ==
    [i \in 1..Len(cuts) + 1 |->
        [start |-> IF i = 1 THEN 0 ELSE cuts[i - 1].end,
         end |-> IF i <= Len(cuts) THEN cuts[i].start ELSE totalDuration]]

ExpectedKeepClips(cuts, totalDuration, minClipDuration) ==
    LET Kept(span) == span.end > span.start /\ span.end - span.start >= minClipDuration
        AsClip(span) == KeepClip(span.start, span.end)
    IN MapSeq(SelectSeq(SpansBetween(cuts, totalDuration), Kept), AsClip)

\* C10: with non-marker cuts, the keep clips are, in order, the non-empty spans
\* between the cuts that are at least minClipDuration long, unextended; and
\* Scenario A gives (0,10), (15,50), (52,100)
C10_KeepClipsAreLongGaps ==
    (pc = "kept" /\ \E c \in Range(cutCandidates) : ~c.isMarker) =>
        /\ keepClips = ExpectedKeepClips(SelectSeq(cutCandidates, IsActualCut),
                                         videoAnalysis.duration,
                                         config.autoCut.minClipDuration)
        /\ cutCandidates = ScenarioCuts =>
              keepClips = <<KeepClip(0, 10), KeepClip(15, 50), KeepClip(52, 100)>>

C10_Witness ==
    /\ pc = "kept"
    /\ \E c \in Range(cutCandidates) : c.isMarker
    /\ \E c \in Range(cutCandidates) : ~c.isMarker
    /\ Len(keepClips) >= 1
    /\ \E i \in 1..Len(cutCandidates) :
          /\ ~cutCandidates[i].isMarker
          /\ cutCandidates[i].start > 0
          /\ cutCandidates[i].start < config.autoCut.minClipDuration

C10_ScenarioWitness ==
    /\ pc = "kept"
    /\ cutCandidates = ScenarioCuts
    /\ keepClips = <<KeepClip(0, 10), KeepClip(15, 50), KeepClip(52, 100)>>

---------------------------------------------------------------------------
(* Properties of generateStatistics *)

\* The sum of the durations of the entries of s at the indices idx
RECURSIVE TotalDuration(_, _)
TotalDuration(s, idx) ==
    IF idx = {} THEN 0
    ELSE LET i == CHOOSE j \in idx : TRUE
         IN s[i].duration + TotalDuration(s, idx \ {i})

---------------------------------------------------------------------------
(* filterCutCandidates and applyCutStyle called on their own, on the lists *)
(* of the merge stage with scene changes in both modes (marker and cut).   *)

SceneCuts == {SceneChangeCandidate(t, WithAutoCut(1, 0, TRUE)) : t \in StageTimes}

\* Thresholds at and next to the confidences of the candidates: 0.3 (a short
\* silence), 0.7 (a filler) and 0.71
MinConfidences == {30, FillerConfidence, FillerConfidence + 1}

\* Learned styles: null, one without cutPattern, one whose cutPattern has no
\* sceneChangeCorrelation, and factors of 0.5, 2 and -0.5
StageStyles ==
    {AbsentStyle,
     [present |-> TRUE, hasCutPattern |-> FALSE, sceneChangeCorrelation |-> 0]}
    \cup {[present |-> TRUE, hasCutPattern |-> TRUE, sceneChangeCorrelation |-> f] :
             f \in {0, 50, 200, -50}}

InitFilter ==
    /\ mergedCandidates \in
           SortedLists(SilenceCuts \cup FillerCuts \cup Markers \cup SceneCuts)
    /\ minimumConfidence \in MinConfidences
    /\ learnedStyle \in StageStyles
    /\ config = DefaultConfig
    /\ videoAnalysis = EmptyVideo
    /\ speechAnalysis = EmptySpeech
    /\ mergeThreshold = DefaultMergeThreshold
    /\ rawCandidates = <<>>
    /\ allCandidates = <<>>
    /\ remergedCandidates = <<>>
    /\ filteredCandidates = <<>>
    /\ cutCandidates = <<>>
    /\ keepClips = <<>>
    /\ stats = NoStats
    /\ NoExport
    /\ NoCalls
    /\ pc = "filter"

\* filterCutCandidates(mergedCandidates, minimumConfidence)
FilterCutCandidates ==
    /\ pc = "filter"
    /\ filteredCandidates' = filterCutCandidates(mergedCandidates, minimumConfidence)
    /\ pc' = "filtered"
    /\ UNCHANGED <<callVars, minimumConfidence, exportVars, config, videoAnalysis,
                   speechAnalysis, learnedStyle, mergeThreshold, rawCandidates,
                   allCandidates, mergedCandidates, remergedCandidates,
                   cutCandidates, keepClips, stats>>

\* applyCutStyle(filteredCandidates, learnedStyle)
ApplyCutStyle ==
    /\ pc = "filtered"
    /\ cutCandidates' = applyCutStyle(filteredCandidates, learnedStyle)
    /\ pc' = "styled"
    /\ UNCHANGED <<callVars, minimumConfidence, exportVars, config, videoAnalysis,
                   speechAnalysis, learnedStyle, mergeThreshold, rawCandidates,
                   allCandidates, mergedCandidates, remergedCandidates,
                   filteredCandidates, keepClips, stats>>

NextFilter == FilterCutCandidates \/ ApplyCutStyle

SpecFilter == InitFilter /\ [][NextFilter]_vars

---------------------------------------------------------------------------
(* Properties of filterCutCandidates *)

\* s is t without some of its entries, the others in the order of t
RECURSIVE IsSubsequence(_, _)
IsSubsequence(s, t) ==
    IF Len(s) = 0 THEN TRUE
    ELSE IF Len(t) = 0 THEN FALSE
    ELSE IF Head(s) = Head(t) THEN IsSubsequence(Tail(s), Tail(t))
    ELSE IsSubsequence(s, Tail(t))

\* How many entries of s equal c
Occurrences(s, c) == Cardinality({i \in 1..Len(s) : s[i] = c})

\* C12: filterCutCandidates keeps a candidate if and only if it is a marker
\* or its confidence is at least minConfidence, a confidence of exactly
\* minConfidence included, and keeps the candidates in their order
C12_FilterKeepsMarkersAndConfident ==
    pc = "filtered" =>
        /\ IsSubsequence(filteredCandidates, mergedCandidates)
        /\ \A c \in Range(mergedCandidates) :
              IF c.isMarker \/ c.confidence >= minimumConfidence
              THEN Occurrences(filteredCandidates, c) = Occurrences(mergedCandidates, c)
              ELSE c \notin Range(filteredCandidates)

C12_Witness ==
    /\ pc = "filtered"
    /\ Len(filteredCandidates) >= 2
    /\ \E c \in Range(mergedCandidates) : c.isMarker /\ c.confidence < minimumConfidence
    /\ \E c \in Range(mergedCandidates) : ~c.isMarker /\ c.confidence = minimumConfidence
    /\ \E c \in Range(mergedCandidates) : ~c.isMarker /\ c.confidence < minimumConfidence

---------------------------------------------------------------------------
(* Properties of applyCutStyle *)

\* C20: with a sceneChangeCorrelation in the learned style, applyCutStyle
\* returns as many candidates in the same order, each equal to the one given
\* except that the confidence of a scene_change candidate is multiplied by the
\* factor, and that confidence stays within [0,1]
C20_StyleScalesWithinBounds ==
    (/\ pc = "styled"
     /\ learnedStyle.present
     /\ learnedStyle.hasCutPattern
     /\ learnedStyle.sceneChangeCorrelation # 0) =>
        /\ Len(cutCandidates) = Len(filteredCandidates)
        /\ \A i \in 1..Len(filteredCandidates) :
              LET given == filteredCandidates[i]
                  styled == cutCandidates[i]
              IN IF given.type = "scene_change"
                 THEN /\ [styled EXCEPT !.confidence = given.confidence] = given
                      /\ styled.confidence * 100
                             = given.confidence * learnedStyle.sceneChangeCorrelation
                      /\ styled.confidence >= 0
                      /\ styled.confidence <= 100
                 ELSE styled = given

---------------------------------------------------------------------------
(* PremiereIntegration (premiere/PremiereIntegration.js).                  *)
(*                                                                         *)
(* A text is the sequence of its code points and a buffer the sequence of  *)
(* its bytes.  A base64 string is the sequence of the indices of its       *)
(* characters in the base64 alphabet A-Z a-z 0-9 + /, the padding          *)
(* character = being 64.                                                   *)

RECURSIVE Pow(_, _)
Pow(b, e) == IF e = 0 THEN 1 ELSE b * Pow(b, e - 1)

\* Buffer.from(text, 'utf-8'): the UTF-8 bytes of one code point
Utf8Char(c) ==
    IF c < 128 THEN <<c>>
    ELSE IF c < 2048 THEN <<192 + (c \div 64), 128 + (c % 64)>>
    ELSE IF c < 65536
         THEN <<224 + (c \div 4096), 128 + ((c \div 64) % 64), 128 + (c % 64)>>
    ELSE <<240 + (c \div 262144), 128 + ((c \div 4096) % 64),
           128 + ((c \div 64) % 64), 128 + (c % 64)>>

Utf8(text) == FlattenSeq([i \in 1..Len(text) |-> Utf8Char(text[i])])

\* Buffer.from(chars, 'base64')
Base64Decode(chars) ==
    LET n == Len(chars)
        padding == Cardinality({i \in 1..n : chars[i] = 64})
        Sextet(i) == IF chars[i] = 64 THEN 0 ELSE chars[i]
        Group(g) == Sextet(4 * g + 1) * 262144 + Sextet(4 * g + 2) * 4096
                        + Sextet(4 * g + 3) * 64 + Sextet(4 * g + 4)
    IN [k \in 1..(n \div 4) * 3 - padding |->
           (Group((k - 1) \div 3) \div Pow(256, 2 - ((k - 1) % 3))) % 256]

\* buffer.toString('base64')
Base64Encode(bytes) ==
    LET n == Len(bytes)
        Byte(i) == IF i <= n THEN bytes[i] ELSE 0
        Group(g) == Byte(3 * g + 1) * 65536 + Byte(3 * g + 2) * 256 + Byte(3 * g + 3)
    IN [j \in 1..4 * ((n + 2) \div 3) |->
           LET g == (j - 1) \div 4
               k == (j - 1) % 4
           IN IF k >= 2 /\ 3 * g + k > n THEN 64
              ELSE (Group(g) \div Pow(64, 3 - k)) % 64]

\* headerBase64
HeaderBase64 ==
    <<36, 0, 8, 0, 0, 0, 0, 0, 0, 0, 1, 4, 12, 50, 8, 17, 3, 0, 0, 0, 0, 0,
    0, 0, 1, 32, 0, 10, 0, 0, 16, 0, 1, 32, 0, 0, 0, 6, 16, 0, 0, 0, 0, 0,
    0, 5, 56, 0, 9, 0, 0, 20, 0, 1, 0, 0, 0, 0, 0, 0, 0, 2, 0, 0, 7, 0, 0,
    0, 0, 0, 0, 0, 0, 0, 0, 0, 0, 0, 0, 0, 0, 0, 0, 0, 0, 0, 0, 0, 0, 0, 0,
    0, 0, 0, 0, 0, 0, 0, 0, 0, 0, 0, 0, 0, 0, 0, 0, 0, 0, 0, 0, 0, 0, 0, 0,
    0, 0, 0, 0, 0, 0, 0, 0, 0, 0, 0, 0, 0, 0, 0, 0, 0, 0, 0, 0, 0, 0, 0, 0,
    0, 0, 0, 0, 0, 0, 0, 0, 0, 0, 0, 0, 0, 3, 48, 0, 0, 0, 0, 32, 0, 0, 0,
    0, 0, 0, 1, 44, 0, 1, 48, 1, 30, 0, 0, 0, 0, 0, 0, 0, 0, 0, 17, 48, 0,
    0, 0, 0, 0, 0, 0, 0, 1, 9, 0, 0, 0, 0, 3, 48, 0, 0, 0, 0, 0, 0, 0, 0, 0,
    0, 32, 0, 0, 0, 0, 8, 0, 0, 0, 0, 16, 63, 47, 63, 63, 5, 15, 59, 63, 63,
    49, 35, 62, 63, 63, 60, 28, 63, 47, 63, 63, 0, 16, 0, 0, 0, 0, 16, 0, 0,
    0, 0, 13, 0, 0, 0, 0, 22, 23, 21, 7, 27, 55, 17, 40, 26, 22, 12, 45, 16,
    38, 61, 44, 25, 0, 0, 0, 0, 0, 4, 0, 0, 0, 0, 12, 0, 0, 0, 0, 2, 0, 0,
    12, 0, 0, 16, 0, 2, 0, 0, 8, 0, 0, 0, 0, 2, 0, 0, 0, 0, 6, 48, 1, 0, 0,
    0, 44, 0, 16, 0, 0>>

\* footerBase64
FooterBase64 ==
    <<13, 32, 0, 32, 0, 0, 0, 0, 7, 0, 0, 0, 0, 0, 0, 0, 6, 0, 0, 23, 0, 1,
    0, 0, 0, 0, 0, 0, 0, 0, 0, 0, 0, 0, 0, 0, 0, 0, 0, 0, 0, 0, 0, 0, 0, 0,
    0, 0, 0, 0, 0, 0, 0, 0, 0, 0, 0, 0, 0, 0, 0, 0, 48, 0, 0, 0, 0, 8, 0, 0,
    16, 0, 13, 32, 0, 0, 0, 0, 8, 0, 0, 0, 0, 24, 0, 0, 0, 0, 7, 0, 0, 0, 0,
    0, 0, 0, 4, 4, 0, 0, 0, 0, 0, 1, 8, 0, 0, 0, 0, 0, 0, 0, 36, 4, 11, 32,
    63, 63, 63, 63, 1, 0, 0, 6, 0, 0, 16, 0, 0, 0, 0, 0, 0, 0, 40, 0, 2, 0,
    0, 5, 0, 0, 24, 0, 1, 48, 0, 10, 0, 0, 0, 0, 0, 0, 0, 0, 0, 0, 16, 0, 1,
    0, 0, 4, 0, 0, 0, 0>>

\* TEXT_SECTION_SIZE
TextSectionSize == 302

\* Mutant of TextSection: the text is not padded to the size of the section
TextSectionUnpadded(textBuffer) ==
    [i \in 1..Min(Len(textBuffer), TextSectionSize) |-> textBuffer[i]]

\* Buffer.alloc(TEXT_SECTION_SIZE), then textBuffer.copy(textSection, 0): copy
\* stops at the end of the target
TextSection(textBuffer) ==
    [i \in 1..TextSectionSize |-> IF i <= Len(textBuffer) THEN textBuffer[i] ELSE 0]

generateCaptionBase64(text) ==
    LET headerBuffer == Base64Decode(HeaderBase64)
        footerBuffer == Base64Decode(FooterBase64)
        textBuffer == Utf8(text)
        finalBuffer == headerBuffer \o TextSection(textBuffer) \o footerBuffer
    IN Base64Encode(finalBuffer)

---------------------------------------------------------------------------
(* generateCaptionBase64 called on its own.  The text is up to             *)
(* MaxNarrowChars one-byte characters ("a") followed by up to MaxWideChars *)
(* three-byte characters (U+3042), which reaches both sides of the section *)
(* size and lets a character straddle its end.                             *)

CaptionText(narrow, wide) ==
    [i \in 1..narrow + wide |-> IF i <= narrow THEN 97 ELSE 12354]

\* The cut-detection variables, which an export does not touch
NoDetection ==
    /\ config = DefaultConfig
    /\ videoAnalysis = EmptyVideo
    /\ speechAnalysis = EmptySpeech
    /\ learnedStyle = AbsentStyle
    /\ mergeThreshold = DefaultMergeThreshold
    /\ minimumConfidence = DefaultMinConfidence
    /\ NoResults

InitCaption ==
    /\ captions \in {<<[text |-> CaptionText(narrow, wide),
                        start |-> 0, end |-> 1, duration |-> 1]>> :
                        narrow \in 0..MaxNarrowChars, wide \in 0..MaxWideChars}
    /\ files = {}
    /\ xml = NoXml
    /\ edl = <<>>
    /\ captionData = <<>>
    /\ NoDetection
    /\ NoCalls
    /\ pc = "caption"

\* generateCaptionBase64(captions[0].text)
GenerateCaptionBase64 ==
    /\ pc = "caption"
    /\ captionData' = generateCaptionBase64(captions[1].text)
    /\ pc' = "encoded"
    /\ UNCHANGED <<callVars, config, videoAnalysis, speechAnalysis, learnedStyle,
                   mergeThreshold, minimumConfidence, rawCandidates, allCandidates,
                   mergedCandidates, remergedCandidates, filteredCandidates,
                   cutCandidates, keepClips, stats, captions, files, xml, edl>>

NextCaption == GenerateCaptionBase64

SpecCaption == InitCaption /\ [][NextCaption]_vars

---------------------------------------------------------------------------
(* Properties of generateCaptionBase64 *)

\* C15: for a text of at most 302 UTF-8 bytes the payload decodes to exactly
\* 668 bytes: the fixed header in bytes 0..239, then in bytes 240..541 the
\* UTF-8 text followed only by zero bytes, then the fixed footer in the last
\* 126 bytes
C15_PayloadLayout ==
    (pc = "encoded" /\ Len(Utf8(captions[1].text)) <= 302) =>
        LET payload == Base64Decode(captionData)
            text == Utf8(captions[1].text)
        IN /\ Len(payload) = 668
           /\ SubSeq(payload, 1, 240) = Base64Decode(HeaderBase64)
           /\ SubSeq(payload, 241, 240 + Len(text)) = text
           /\ \A i \in 241 + Len(text)..542 : payload[i] = 0
           /\ SubSeq(payload, 543, 668) = Base64Decode(FooterBase64)

C15_Witness ==
    /\ pc = "encoded"
    /\ Len(Utf8(captions[1].text)) = 302
    /\ \E i \in 1..Len(captions[1].text) : captions[1].text[i] > 127
    /\ Len(Base64Decode(captionData)) = 668

\* Scenario C: a text of 10 UTF-8 bytes
C15_ScenarioWitness ==
    /\ pc = "encoded"
    /\ Len(Utf8(captions[1].text)) = 10
    /\ Len(Base64Decode(captionData)) = 668

---------------------------------------------------------------------------
(* PremiereIntegration: timecodes, the edit-decision list, the project XML *)
(*                                                                         *)
(* The times of an export are integers counting 1 / UnitsPerSecond second, *)
(* a tenth of the millisecond that toFixed(3) prints, so that the rounding *)
(* of toFixed(3) and the floor of the frame conversion both show.  A       *)
(* number printed by toFixed(3) is the integer of its thousandths, and NaN *)
(* is the string "NaN".  A property that is undefined on an object of the  *)
(* source is a field the record does not have.  frameRate is a whole       *)
(* number of frames per second.                                            *)

MillisPerSecond == 1000

UnitsPerMilli == 10

UnitsPerSecond == MillisPerSecond * UnitsPerMilli

\* num / den seconds
Seconds(num, den) == (num * UnitsPerSecond) \div den

Has(object, field) == field \in DOMAIN object

WithoutField(object, field) == [f \in DOMAIN object \ {field} |-> object[f]]

NaN == "NaN"

\* t.toFixed(3), t >= 0: the nearest thousandth
toFixed3(t) == (2 * t + UnitsPerMilli) \div (2 * UnitsPerMilli)

\* Mutant of FloorFrames: the frame count is rounded to the nearest
RoundedFrames(t, frameRate) == (2 * t * frameRate + UnitsPerSecond) \div (2 * UnitsPerSecond)

\* Math.floor(t * frameRate)
FloorFrames(t, frameRate) == (t * frameRate) \div UnitsPerSecond

\* HH:MM:SS:FF as <<HH, MM, SS, FF>>
framesToTimecode(frames, frameRate) ==
    <<frames \div (frameRate * 3600),
      (frames % (frameRate * 3600)) \div (frameRate * 60),
      (frames % (frameRate * 60)) \div frameRate,
      frames % frameRate>>

\* framesToTimecode(NaN, frameRate)
NaNTimecode == <<NaN, NaN, NaN, NaN>>

\* The rows of the edit-decision list; row i of the model is the row of the
\* source's index i - 1
generateEDL(clips, cfg) ==
    LET frameRate == cfg.premiere.project.frameRate
        Source(clip, field) ==
            IF Has(clip, field)
            THEN framesToTimecode(FloorFrames(clip[field], frameRate), frameRate)
            ELSE NaNTimecode
        Record(clip, times) ==
            IF Has(clip, "duration")
            THEN framesToTimecode(FloorFrames(times * clip.duration, frameRate),
                                  frameRate)
            ELSE NaNTimecode
    IN [i \in 1..Len(clips) |->
           [editNumber |-> i,
            sourceIn |-> Source(clips[i], "start"),
            sourceOut |-> Source(clips[i], "end"),
            recordIn |-> Record(clips[i], i - 1),
            recordOut |-> Record(clips[i], i)]]

\* escapeXml on code points: & < > " ' become entities
escapeXml(text) ==
    LET Escaped(c) ==
            IF c = 38 THEN <<38, 97, 109, 112, 59>>
            ELSE IF c = 60 THEN <<38, 108, 116, 59>>
            ELSE IF c = 62 THEN <<38, 103, 116, 59>>
            ELSE IF c = 34 THEN <<38, 113, 117, 111, 116, 59>>
            ELSE IF c = 39 THEN <<38, 97, 112, 111, 115, 59>>
            ELSE <<c>>
    IN FlattenSeq([i \in 1..Len(text) |-> Escaped(text[i])])

\* sequenceTime after the first n clips is NaN once a duration was undefined
SequenceTimeIsNaN(clips, n) == \E j \in 1..n : ~Has(clips[j], "duration")

\* sequenceTime after the first n clips
SequenceTime(clips, n) == SumSeq([j \in 1..n |-> clips[j].duration])

\* What toFixed(3) prints of sequenceTime after the first n clips
SequenceTimeFixed(clips, n) ==
    IF SequenceTimeIsNaN(clips, n) THEN NaN ELSE toFixed3(SequenceTime(clips, n))

\* Mutant of VideoClipItem: every item starts at the head of the sequence
VideoClipItemFromZero(clips, i, frameRate) ==
    [timebase |-> frameRate,
     in |-> toFixed3(clips[i].start),
     out |-> toFixed3(clips[i].end),
     start |-> 0,
     end |-> IF Has(clips[i], "duration") THEN toFixed3(clips[i].duration) ELSE NaN,
     clipindex |-> i]

\* A clip item of the video track
VideoClipItem(clips, i, frameRate) ==
    [timebase |-> frameRate,
     in |-> toFixed3(clips[i].start),
     out |-> toFixed3(clips[i].end),
     start |-> SequenceTimeFixed(clips, i - 1),
     end |-> SequenceTimeFixed(clips, i),
     clipindex |-> i]

\* A clip item of the audio track
AudioClipItem(clips, i, frameRate) ==
    [timebase |-> frameRate,
     in |-> toFixed3(clips[i].start),
     out |-> toFixed3(clips[i].end),
     start |-> SequenceTimeFixed(clips, i - 1),
     end |-> SequenceTimeFixed(clips, i),
     clipindex |-> i]

\* A clip item of the caption track; duration, printed by toFixed(6), is in
\* millionths of a frame
CaptionClipItem(caption, i, frameRate) ==
    [id |-> i,
     name |-> escapeXml(caption.text),
     duration |-> IF Has(caption, "duration")
                  THEN caption.duration * frameRate * (1000000 \div UnitsPerSecond)
                  ELSE NaN,
     timebase |-> frameRate,
     start |-> toFixed3(caption.start),
     end |-> toFixed3(caption.end),
     in |-> toFixed3(caption.start),
     out |-> toFixed3(caption.end),
     value |-> generateCaptionBase64(caption.text)]

\* generateProjectXML throws a TypeError when it calls a method of undefined:
\* frameRate.toFixed, clip.start.toFixed, clip.end.toFixed, Buffer.from(text),
\* caption.start.toFixed, caption.end.toFixed
generateProjectXMLThrows(clips, captionList, cfg) ==
    \/ ~Has(cfg.premiere.project, "frameRate")
    \/ \E i \in 1..Len(clips) : ~Has(clips[i], "start") \/ ~Has(clips[i], "end")
    \/ \E i \in 1..Len(captionList) :
          \/ ~Has(captionList[i], "text")
          \/ ~Has(captionList[i], "start")
          \/ ~Has(captionList[i], "end")

generateProjectXML(clips, captionList, cfg) ==
    LET frameRate == cfg.premiere.project.frameRate
    IN [duration |-> SequenceTimeFixed(clips, Len(clips)),
        videoTrack |-> [i \in 1..Len(clips) |-> VideoClipItem(clips, i, frameRate)],
        captionTrack |-> [i \in 1..Len(captionList) |->
                             CaptionClipItem(captionList[i], i, frameRate)],
        audioTrack |-> [i \in 1..Len(clips) |-> AudioClipItem(clips, i, frameRate)]]

\* generateEditReport throws a TypeError when it calls toFixed of an undefined
\* start, end or duration of a non-marker cut, a keep clip or a caption
generateEditReportThrows(clips, candidates, captionList) ==
    LET Incomplete(x) == ~Has(x, "start") \/ ~Has(x, "end") \/ ~Has(x, "duration")
    IN \/ \E i \in 1..Len(candidates) :
             ~candidates[i].isMarker /\ Incomplete(candidates[i])
       \/ \E i \in 1..Len(clips) : Incomplete(clips[i])
       \/ \E i \in 1..Len(captionList) : Incomplete(captionList[i])

---------------------------------------------------------------------------
(* exportAll, one step for each artifact it writes.  The contents of the   *)
(* JSON, SRT and CSV files are not represented, only that they were        *)
(* written; a failing write of the file system is not modelled.            *)

\* 0 s, 0.0004 s, 0.99 s, 1.5 s, 3 s
ExportTimes == {0, Seconds(4, 10000), Seconds(99, 100), Seconds(3, 2), Seconds(3, 1)}

ClipValues == {c \in {KeepClip(a, b) : a, b \in ExportTimes} : c.start < c.end}

\* Keep clips as generateKeepClips returns them, and lists with a clip that
\* lacks its start or its duration
ExportClipLists ==
    {L \in SeqsUpTo(ClipValues, MaxClips) : Chronological(L)}
    \cup {<<WithoutField(KeepClip(0, Seconds(3, 2)), f)>> : f \in {"start", "duration"}}

ExportCut ==
    [start |-> Seconds(99, 100), end |-> Seconds(3, 2),
     duration |-> Seconds(3, 2) - Seconds(99, 100),
     type |-> "silence", reason |-> <<"silence">>, confidence |-> 60,
     isMarker |-> FALSE]

ExportMarker ==
    [start |-> Seconds(3, 2), end |-> Seconds(3, 2), duration |-> 0,
     type |-> "scene_change", reason |-> <<"scene_change">>,
     confidence |-> SceneChangeConfidence, isMarker |-> TRUE]

\* No candidate, a cut, a cut or a marker without its duration
ExportCutLists ==
    {<<>>, <<ExportCut>>, <<WithoutField(ExportCut, "duration")>>,
     <<WithoutField(ExportMarker, "duration")>>}

\* A caption of 10 UTF-8 bytes
ShortCaption ==
    [text |-> CaptionText(1, 3), start |-> 0, end |-> Seconds(99, 100),
     duration |-> Seconds(99, 100)]

\* A caption of 304 UTF-8 bytes
LongCaption == [ShortCaption EXCEPT !.text = CaptionText(1, 101)]

ExportCaptionLists ==
    {<<>>, <<ShortCaption>>, <<LongCaption>>, <<ShortCaption, LongCaption>>}
    \cup {<<WithoutField(ShortCaption, f)>> : f \in {"text", "start", "duration"}}

\* config.premiere.project of default.config.js, with frameRate 30, 24 or
\* undefined
PremiereProjects ==
    {[frameRate |-> r, width |-> 1920, height |-> 1080] : r \in {30, 24}}
    \cup {[width |-> 1920, height |-> 1080]}

ExportConfigs ==
    {[autoCut |-> DefaultConfig.autoCut,
      advancedDetection |-> DefaultConfig.advancedDetection,
      premiere |-> [exportFormat |-> "xml", project |-> p]] : p \in PremiereProjects}

InitExport ==
    /\ config \in ExportConfigs
    /\ keepClips \in ExportClipLists
    /\ cutCandidates \in ExportCutLists
    /\ captions \in ExportCaptionLists
    /\ files = {}
    /\ xml = NoXml
    /\ edl = <<>>
    /\ captionData = <<>>
    /\ videoAnalysis = EmptyVideo
    /\ speechAnalysis = EmptySpeech
    /\ learnedStyle = AbsentStyle
    /\ mergeThreshold = DefaultMergeThreshold
    /\ minimumConfidence = DefaultMinConfidence
    /\ NoCalls
    /\ rawCandidates = <<>>
    /\ allCandidates = <<>>
    /\ mergedCandidates = <<>>
    /\ remergedCandidates = <<>>
    /\ filteredCandidates = <<>>
    /\ stats = NoStats
    /\ pc = "export"

\* The variables exportAll only reads or never sees
exportInputs == <<config, videoAnalysis, speechAnalysis, learnedStyle, mergeThreshold,
                  minimumConfidence, rawCandidates, allCandidates, mergedCandidates,
                  remergedCandidates, filteredCandidates, cutCandidates, keepClips,
                  stats, captions, captionData>>

\* 1. generateProjectXML, then writeFile: the error of generateProjectXML
\* leaves exportAll before the write
ExportXML ==
    /\ pc = "export"
    /\ IF generateProjectXMLThrows(keepClips, captions, config)
       THEN /\ pc' = "failed"
            /\ UNCHANGED <<xml, files>>
       ELSE /\ xml' = generateProjectXML(keepClips, captions, config)
            /\ files' = files \cup {"xml"}
            /\ pc' = "edl"
    /\ UNCHANGED <<callVars, exportInputs, edl>>

\* 2. generateEDL, then writeFile
ExportEDL ==
    /\ pc = "edl"
    /\ edl' = generateEDL(keepClips, config)
    /\ files' = files \cup {"edl"}
    /\ pc' = "json"
    /\ UNCHANGED <<callVars, exportInputs, xml>>

\* 3. generateProjectJSON, then writeJson
ExportJSON ==
    /\ pc = "json"
    /\ files' = files \cup {"json"}
    /\ pc' = "srt"
    /\ UNCHANGED <<callVars, exportInputs, xml, edl>>

\* 4. generateSRT, then writeFile
ExportSRT ==
    /\ pc = "srt"
    /\ files' = files \cup {"srt"}
    /\ pc' = "csv"
    /\ UNCHANGED <<callVars, exportInputs, xml, edl>>

\* 5. generateEditReport, then writeFile: the error of generateEditReport
\* leaves exportAll before the write
ExportCSV ==
    /\ pc = "csv"
    /\ IF generateEditReportThrows(keepClips, cutCandidates, captions)
       THEN /\ pc' = "failed"
            /\ UNCHANGED files
       ELSE /\ files' = files \cup {"csv"}
            /\ pc' = "exported"
    /\ UNCHANGED <<callVars, exportInputs, xml, edl>>

NextExport == ExportXML \/ ExportEDL \/ ExportJSON \/ ExportSRT \/ ExportCSV

SpecExport == InitExport /\ [][NextExport]_vars

---------------------------------------------------------------------------
(* Properties of the export *)

\* Every entry of the list has its start, end and duration
AllComplete(list) ==
    \A i \in 1..Len(list) :
        Has(list[i], "start") /\ Has(list[i], "end") /\ Has(list[i], "duration")

\* The frame count a well-formed timecode <<HH, MM, SS, FF>> stands for
TimecodeFrames(tc, frameRate) ==
    ((tc[1] * 60 + tc[2]) * 60 + tc[3]) * frameRate + tc[4]

WellFormedTimecode(tc, frameRate) ==
    /\ Len(tc) = 4
    /\ \A k \in 1..4 : tc[k] >= 0
    /\ tc[2] < 60
    /\ tc[3] < 60
    /\ tc[4] < frameRate

\* frames = floor(t * frameRate), t in units of 1 / UnitsPerSecond second
IsFloorOf(frames, t, frameRate) ==
    /\ frames * UnitsPerSecond <= t * frameRate
    /\ t * frameRate < (frames + 1) * UnitsPerSecond

\* tc is the timecode of floor(t * frameRate)
IsFloorTimecode(tc, t, frameRate) ==
    /\ WellFormedTimecode(tc, frameRate)
    /\ IsFloorOf(TimecodeFrames(tc, frameRate), t, frameRate)

\* C13: the source in and out of every row of the edit-decision list are the
\* timecodes of floor(start x frameRate) and floor(end x frameRate), never
\* rounded up; at frameRate 30, 1.5 s is frame 45 and 0.99 s is frame 29
C13_EdlSourceFramesFloor ==
    ("edl" \in files /\ AllComplete(keepClips)) =>
        LET frameRate == config.premiere.project.frameRate
        IN /\ Len(edl) = Len(keepClips)
           /\ \A i \in 1..Len(keepClips) :
                 /\ IsFloorTimecode(edl[i].sourceIn, keepClips[i].start, frameRate)
                 /\ IsFloorTimecode(edl[i].sourceOut, keepClips[i].end, frameRate)
                 /\ (frameRate = 30 /\ keepClips[i].start = Seconds(99, 100)) =>
                       TimecodeFrames(edl[i].sourceIn, frameRate) = 29
                 /\ (frameRate = 30 /\ keepClips[i].end = Seconds(3, 2)) =>
                       TimecodeFrames(edl[i].sourceOut, frameRate) = 45

C13_Witness ==
    /\ "edl" \in files
    /\ config.premiere.project.frameRate = 30
    /\ \E i \in 1..Len(keepClips) :
          /\ AllComplete(keepClips)
          /\ keepClips[i].start = Seconds(99, 100)
          /\ keepClips[i].end = Seconds(3, 2)
          /\ edl[i].sourceIn = <<0, 0, 0, 29>>
          /\ edl[i].sourceOut = <<0, 0, 1, 15>>

\* C14: the record in of row i is the timecode of floor(frameRate x the sum of
\* the durations of the clips before i) and its record out that of
\* floor(frameRate x the sum up to and including i); the first record in is
\* 00:00:00:00 and each record in is the record out of the row before
C14_EdlRecordAccumulates ==
    ("edl" \in files /\ AllComplete(keepClips)) =>
        LET frameRate == config.premiere.project.frameRate
        IN \A i \in 1..Len(keepClips) :
              /\ IsFloorTimecode(edl[i].recordIn,
                                 TotalDuration(keepClips, 1..i - 1), frameRate)
              /\ IsFloorTimecode(edl[i].recordOut,
                                 TotalDuration(keepClips, 1..i), frameRate)
              /\ i = 1 => edl[i].recordIn = <<0, 0, 0, 0>>
              /\ i > 1 => edl[i].recordIn = edl[i - 1].recordOut

\* An oversize caption is among the captions given to exportAll
OversizeCaptionGiven ==
    \E i \in 1..Len(captions) :
        Has(captions[i], "text") /\ Len(Utf8(captions[i].text)) > 302

\* C16: with a caption text of more than 302 UTF-8 bytes exportAll fails
\* before it writes any file: no file is written and no project XML, and so no
\* payload for that caption, is produced
C16_OversizeCaptionRejected ==
    OversizeCaptionGiven =>
        /\ files = {}
        /\ xml = NoXml
        /\ pc \in {"export", "failed"}

\* C17: when exportAll fails on an invalid input, none of the five files has
\* been written
C17_NoPartialArtifact ==
    pc = "failed" => files = {}

\* C18: the clip items of the video track are sequential: the first starts at
\* 0, each item's end minus its start is the duration of its keep clip, each
\* item starts where the one before ends; and audio item i has the in, out,
\* start and end of video item i
C18_XmlItemsSequential ==
    ("xml" \in files /\ AllComplete(keepClips)) =>
        LET video == xml.videoTrack
            audio == xml.audioTrack
        IN /\ Len(video) = Len(keepClips)
           /\ Len(audio) = Len(keepClips)
           /\ \A i \in 1..Len(keepClips) :
                 /\ i = 1 => video[i].start = 0
                 /\ (video[i].end - video[i].start) * UnitsPerMilli
                        = keepClips[i].duration
                 /\ i > 1 => video[i].start = video[i - 1].end
                 /\ audio[i].in = video[i].in
                 /\ audio[i].out = video[i].out
                 /\ audio[i].start = video[i].start
                 /\ audio[i].end = video[i].end

\* printed, in thousandths, is the thousandth nearest to t
IsNearestThousandth(printed, t) ==
    /\ 2 * (printed * UnitsPerMilli - t) <= UnitsPerMilli
    /\ 2 * (t - printed * UnitsPerMilli) <= UnitsPerMilli

\* C18 as the source has it: start and end are the sums of the durations
\* before and up to the item, each printed to the nearest thousandth of a
\* second, so that end minus start is the clip's duration to within a
\* thousandth; the rest as claimed
C18_XmlItemsSequentialRounded ==
    ("xml" \in files /\ AllComplete(keepClips)) =>
        LET video == xml.videoTrack
            audio == xml.audioTrack
        IN /\ Len(video) = Len(keepClips)
           /\ Len(audio) = Len(keepClips)
           /\ \A i \in 1..Len(keepClips) :
                 /\ i = 1 => video[i].start = 0
                 /\ IsNearestThousandth(video[i].start,
                                        TotalDuration(keepClips, 1..i - 1))
                 /\ IsNearestThousandth(video[i].end, TotalDuration(keepClips, 1..i))
                 /\ (video[i].end - video[i].start) * UnitsPerMilli
                        - keepClips[i].duration <= UnitsPerMilli
                 /\ keepClips[i].duration
                        - (video[i].end - video[i].start) * UnitsPerMilli
                        <= UnitsPerMilli
                 /\ i > 1 => video[i].start = video[i - 1].end
                 /\ audio[i].in = video[i].in
                 /\ audio[i].out = video[i].out
                 /\ audio[i].start = video[i].start
                 /\ audio[i].end = video[i].end

C18_Witness ==
    /\ "xml" \in files
    /\ AllComplete(keepClips)
    /\ Len(keepClips) = 2
    /\ keepClips[1].duration % UnitsPerMilli # 0
    /\ keepClips[1].duration # keepClips[2].duration
    /\ xml.videoTrack[2].start = xml.videoTrack[1].end
    /\ xml.videoTrack[2].start > 0
    /\ xml.audioTrack[2].end = xml.videoTrack[2].end

\* C19: the in and out of every video clip item are the frame numbers
\* floor(start x frameRate) and floor(end x frameRate), in the timebase
\* written for the item
C19_XmlInOutAreFrames ==
    ("xml" \in files /\ AllComplete(keepClips)) =>
        \A i \in 1..Len(keepClips) :
            LET item == xml.videoTrack[i]
            IN /\ item.timebase = config.premiere.project.frameRate
               /\ item.in % MillisPerSecond = 0
               /\ item.out % MillisPerSecond = 0
               /\ IsFloorOf(item.in \div MillisPerSecond, keepClips[i].start,
                            item.timebase)
               /\ IsFloorOf(item.out \div MillisPerSecond, keepClips[i].end,
                            item.timebase)

---------------------------------------------------------------------------
(* Properties of the merged entries *)

\* The k-th smallest element of the set of numbers S
KthSmallest(S, k) == CHOOSE x \in S : Cardinality({y \in S : y < x}) = k - 1

\* The runs [from, to] into which the last indices ends, the last of them n,
\* split the indices 1..n
RunsEndingAt(ends, n) ==
    [k \in 1..Cardinality(ends) |->
        [from |-> IF k = 1 THEN 1 ELSE KthSmallest(ends, k - 1) + 1,
         to |-> KthSmallest(ends, k)]]

MaxOver(S) == CHOOSE x \in S : \A y \in S : y <= x

\* entry is what the run of the candidates from..to is fused into
IsFusedRun(entry, candidates, from, to) ==
    IF from = to THEN entry = candidates[from]
    ELSE /\ entry.start = candidates[from].start
         /\ entry.end = MaxOver({candidates[i].end : i \in from..to})
         /\ entry.duration = entry.end - entry.start
         /\ entry.confidence = MaxOver({candidates[i].confidence : i \in from..to})

\* C22: the merge of non-marker candidates sorted by start splits them into
\* consecutive runs, one merged entry for each; the entry of a run of two or
\* more has the start of the run's first candidate, the largest end of the
\* run, duration = end - start and the largest confidence of the run
C22_MergedEntryCoversRun ==
    (/\ pc = "merged"
     /\ Len(allCandidates) > 0
     /\ \A c \in Range(allCandidates) : ~c.isMarker) =>
        \E inner \in SUBSET (1..Len(allCandidates) - 1) :
            LET runs == RunsEndingAt(inner \cup {Len(allCandidates)},
                                     Len(allCandidates))
            IN /\ Len(mergedCandidates) = Len(runs)
               /\ \A k \in 1..Len(runs) :
                     IsFusedRun(mergedCandidates[k], allCandidates,
                                runs[k].from, runs[k].to)

\* A run of three whose second candidate ends last and whose confidences differ
C22_Witness ==
    /\ pc = "merged"
    /\ Len(allCandidates) = 3
    /\ \A c \in Range(allCandidates) : ~c.isMarker
    /\ Len(mergedCandidates) = 1
    /\ allCandidates[3].end < allCandidates[2].end
    /\ allCandidates[1].end < allCandidates[2].end
    /\ allCandidates[1].confidence < allCandidates[2].confidence
    /\ mergedCandidates[1].end = allCandidates[2].end


---------------------------------------------------------------------------
(* generateCutCandidates called on its own, with silences whose durations  *)
(* lie on and around the limits of calculateSilenceConfidence, with scene  *)
(* changes closer to 0 than the buffer, and with fillers at 0.             *)

MaxGenSilences == 2

\* 0.2 s, 0.25 s, 0.45 s, 0.5 s, 0.95 s, 1.0 s, 1.95 s, 2.0 s, 2.05 s
GenerateDurations == {4, 5, 9, 10, 19, 20, 39, 40, 41}

GenerateSilences ==
    {[start |-> a, end |-> a + d, duration |-> d] :
        a \in {50 * k : k \in 0..MaxGenSilences - 1}, d \in GenerateDurations}

GenerateVideos ==
    {va \in [duration : {50 * MaxGenSilences},
             silences : SeqsUpTo(GenerateSilences, MaxGenSilences),
             sceneChanges : SeqsUpTo({0, 1, 2, 5}, MaxScenes)] :
        /\ Chronological(va.silences)
        /\ \A i \in 1..Len(va.sceneChanges) - 1 :
              va.sceneChanges[i] < va.sceneChanges[i + 1]}

GenerateSpeeches ==
    {sa \in [fillerWords : SeqsUpTo({w \in [start : {0, 1, 3}, end : {1, 3, 4}] :
                                        w.start < w.end}, MaxFillers),
             segments : {<<>>}] :
        Chronological(sa.fillerWords)}

GenerateConfigs ==
    {[DefaultConfig EXCEPT !.autoCut.silenceMinDuration = minDuration,
                           !.autoCut.cutBuffer = cutBuffer,
                           !.autoCut.sceneChangeBuffer = buffer,
                           !.autoCut.useSceneChangesForCuts = useAscut] :
        minDuration \in {5, 10, 20}, cutBuffer \in {0, 2}, buffer \in {0, 2},
        useAscut \in BOOLEAN}

InitGenerate ==
    /\ config \in GenerateConfigs
    /\ videoAnalysis \in GenerateVideos
    /\ speechAnalysis \in GenerateSpeeches
    /\ learnedStyle = AbsentStyle
    /\ mergeThreshold = DefaultMergeThreshold
    /\ minimumConfidence = DefaultMinConfidence
    /\ NoResults
    /\ NoExport
    /\ NoCalls
    /\ pc = "generate"

\* generateCutCandidates(videoAnalysis, speechAnalysis)
GenerateCutCandidates ==
    /\ pc = "generate"
    /\ rawCandidates' = generateCutCandidates(videoAnalysis, speechAnalysis, config)
    /\ pc' = "generated"
    /\ UNCHANGED <<callVars, minimumConfidence, exportVars, config, videoAnalysis,
                   speechAnalysis, learnedStyle, mergeThreshold, allCandidates,
                   mergedCandidates, remergedCandidates, filteredCandidates,
                   cutCandidates, keepClips, stats>>

NextGenerate == GenerateCutCandidates

SpecGenerate == InitGenerate /\ [][NextGenerate]_vars

OfType(candidates, type) == SelectSeq(candidates, LAMBDA c : c.type = type)

LongSilences(va, cfg) ==
    SelectSeq(va.silences, LAMBDA s : s.duration >= cfg.autoCut.silenceMinDuration)

\* C23: generateCutCandidates emits one silence candidate for each silence
\* whose duration is at least silenceMinDuration and none for a shorter one;
\* the candidate's confidence is 0.3 below 0.5 s, 0.6 from 0.5 s and below
\* 1.0 s, 0.8 from 1.0 s and below 2.0 s, and 0.95 from 2.0 s on, so that it
\* never decreases when the duration grows.
C23_SilenceCandidatesAndSteps ==
    pc = "generated" =>
        LET emitted == OfType(rawCandidates, "silence")
            long == LongSilences(videoAnalysis, config)
        IN /\ Len(emitted) = Len(long)
           /\ \A i \in 1..Len(long) :
                 /\ emitted[i].start = long[i].start
                 /\ emitted[i].end = long[i].end
                 /\ emitted[i].duration = long[i].duration
           /\ \A i \in 1..Len(emitted) :
                 /\ emitted[i].duration < 10 => emitted[i].confidence = 30
                 /\ (emitted[i].duration >= 10 /\ emitted[i].duration < 20)
                       => emitted[i].confidence = 60
                 /\ (emitted[i].duration >= 20 /\ emitted[i].duration < 40)
                       => emitted[i].confidence = 80
                 /\ emitted[i].duration >= 40 => emitted[i].confidence = 95
           /\ \A i, j \in 1..Len(emitted) :
                 emitted[i].duration <= emitted[j].duration
                     => emitted[i].confidence <= emitted[j].confidence

\* A silence of 0.45 s is dropped and one of exactly 0.5 s is emitted with 0.6
C23_Witness ==
    /\ pc = "generated"
    /\ config.autoCut.silenceMinDuration = 10
    /\ Len(videoAnalysis.silences) = 2
    /\ videoAnalysis.silences[1].duration = 9
    /\ videoAnalysis.silences[2].duration = 10
    /\ Len(OfType(rawCandidates, "silence")) = 1
    /\ OfType(rawCandidates, "silence")[1].confidence = 60


\* C24: every scene-change timestamp t yields one candidate with confidence
\* 0.6.  With useSceneChangesForCuts off it is a marker with start = end = t
\* and duration 0; with it on it is a cut of width twice the buffer centred
\* on t: start = t - buffer, end = t + buffer and end - start = duration =
\* 2 x buffer, also when t is smaller than the buffer.
C24_SceneChangeCandidates ==
    pc = "generated" =>
        LET emitted == OfType(rawCandidates, "scene_change")
            times == videoAnalysis.sceneChanges
            buffer == SceneChangeBuffer(config)
        IN /\ Len(emitted) = Len(times)
           /\ \A i \in 1..Len(times) :
                 /\ emitted[i].confidence = 60
                 /\ IF config.autoCut.useSceneChangesForCuts
                    THEN /\ ~emitted[i].isMarker
                         /\ emitted[i].start = times[i] - buffer
                         /\ emitted[i].end = times[i] + buffer
                         /\ emitted[i].duration = 2 * buffer
                         /\ emitted[i].end - emitted[i].start = emitted[i].duration
                    ELSE /\ emitted[i].isMarker
                         /\ emitted[i].start = times[i]
                         /\ emitted[i].end = times[i]
                         /\ emitted[i].duration = 0


\* C27: every candidate returned by generateCutCandidates and by
\* SpeechAnalyzer.detectPauses has duration = end - start and
\* 0 <= start <= end, fillers widened by cutBuffer and candidates whose
\* start is clamped at 0 included.
C27_CandidatesWellFormed ==
    pc = "done" =>
        \A c \in Range(rawCandidates) \cup Range(detectPauses(speechAnalysis, config)) :
            /\ c.duration = c.end - c.start
            /\ 0 <= c.start
            /\ c.start <= c.end


ActualCuts(candidates) == SelectSeq(candidates, LAMBDA c : ~c.isMarker)

\* C26: cutTypes of generateStatistics reports, for every type that occurs
\* among the non-marker cuts (silence, filler, scene change, speech rate,
\* pause, sentiment), the number of cuts of that type, so that the per-type
\* counts add up to totalCuts.
C26_CutTypesCoverAllCuts ==
    pc = "done" =>
        LET actualCuts == ActualCuts(cutCandidates)
            reported == DOMAIN stats.cutTypes
        IN /\ \A i \in 1..Len(actualCuts) :
                 /\ actualCuts[i].type \in reported
                 /\ stats.cutTypes[actualCuts[i].type]
                        = Len(OfType(actualCuts, actualCuts[i].type))
           /\ SumSeq([i \in 1..Len(actualCuts) |->
                        IF \E j \in 1..i - 1 : actualCuts[j].type = actualCuts[i].type
                        THEN 0
                        ELSE IF actualCuts[i].type \in reported
                             THEN stats.cutTypes[actualCuts[i].type] ELSE 0])
                 = stats.totalCuts


---------------------------------------------------------------------------
(* The transformation stages on object references.  A JavaScript array     *)
(* holds references to objects, and an assignment to a field of an object  *)
(* is seen through every reference to it.  heap[r] is the object that the  *)
(* reference r denotes; an object literal allocates the next reference.    *)
(* The stages are the code of part_004:83-231 again, statement by          *)
(* statement, with every read and write of a field going through the heap. *)

Deref(h, refs) == [i \in 1..Len(refs) |-> h[refs[i]]]

\* Variant of CopyOf: no copy is made, the result is the object itself
AliasOf(h, ref) == [heap |-> h, ref |-> ref]

\* { ...object }: a new object with the same fields
CopyOf(h, ref) == [heap |-> Append(h, h[ref]), ref |-> Len(h) + 1]

\* The loop of mergeCutCandidates from index i on; current is a reference
RECURSIVE MergeLoopOnHeap(_, _, _, _, _, _)
MergeLoopOnHeap(h, candidates, i, current, merged, threshold) ==
    IF i > Len(candidates) THEN [heap |-> h, result |-> Append(merged, current)]
    ELSE LET next == candidates[i]
             copy == CopyOf(h, next)
         IN IF h[current].isMarker
            THEN MergeLoopOnHeap(copy.heap, candidates, i + 1, copy.ref,
                                 Append(merged, current), threshold)
            ELSE IF h[next].start - h[current].end <= threshold
            THEN MergeLoopOnHeap([h EXCEPT ![current] = MergeInto(h[current], h[next])],
                                 candidates, i + 1, current, merged, threshold)
            ELSE MergeLoopOnHeap(copy.heap, candidates, i + 1, copy.ref,
                                 Append(merged, current), threshold)

MergeOnHeap(h, candidates, threshold) ==
    IF Len(candidates) = 0 THEN [heap |-> h, result |-> <<>>]
    ELSE LET copy == CopyOf(h, candidates[1])
         IN MergeLoopOnHeap(copy.heap, candidates, 2, copy.ref, <<>>, threshold)

\* candidates.filter(...): a new array of the same references
FilterOnHeap(h, candidates, minConfidence) ==
    [heap |-> h,
     result |-> SelectSeq(candidates,
                    LAMBDA r : h[r].isMarker \/ h[r].confidence >= minConfidence)]

\* The loop of applyCutStyle from index i on
RECURSIVE StyleLoopOnHeap(_, _, _, _, _)
StyleLoopOnHeap(h, candidates, i, styled, style) ==
    IF i > Len(candidates) THEN [heap |-> h, result |-> styled]
    ELSE LET candidate == candidates[i]
             adjusted == CopyOf(h, candidate)
             scaled ==
                 IF style.sceneChangeCorrelation # 0
                    /\ adjusted.heap[candidate].type = "scene_change"
                 THEN [adjusted.heap EXCEPT ![adjusted.ref].confidence =
                          (@ * style.sceneChangeCorrelation) \div 100]
                 ELSE adjusted.heap
         IN StyleLoopOnHeap(scaled, candidates, i + 1, Append(styled, adjusted.ref),
                            style)

\* Without a style or a cut pattern the array itself is returned
StyleOnHeap(h, candidates, style) ==
    IF ~style.present \/ ~style.hasCutPattern THEN [heap |-> h, result |-> candidates]
    ELSE StyleLoopOnHeap(h, candidates, 1, <<>>, style)

\* generateKeepClips reads the cuts and pushes new clip objects
KeepClipsOnHeap(h, candidates, totalDuration, cfg) ==
    LET clips == generateKeepClips(Deref(h, candidates), totalDuration, cfg)
    IN [heap |-> h \o clips, result |-> [i \in 1..Len(clips) |-> Len(h) + i]]

StageDuration == MaxTime + 1

InitStages ==
    /\ heap \in SortedLists(SilenceCuts \cup FillerCuts \cup Markers \cup SceneCuts)
    /\ inputRefs = [i \in 1..Len(heap) |-> i]
    /\ resultRefs = <<>>
    /\ silences = <<>>
    /\ silenceResult = <<>>
    /\ options = [styleUrls |-> 0, styleName |-> FALSE]
    /\ step = "idle"
    /\ started = <<>>
    /\ attempt = 0
    /\ lastError = NoError
    /\ tempFiles = 0
    /\ cleanupCalls = 0
    /\ outcome = NoOutcome
    /\ config = WithAutoCut(2, 1, FALSE)
    /\ videoAnalysis = [EmptyVideo EXCEPT !.duration = StageDuration]
    /\ speechAnalysis = EmptySpeech
    /\ learnedStyle = AbsentStyle
    /\ mergeThreshold = DefaultMergeThreshold
    /\ minimumConfidence = DefaultMinConfidence
    /\ NoResults
    /\ NoExport
    /\ pc = "call"

stageFrame == <<silenceVars, pipelineVars, exportVars, config, videoAnalysis,
                speechAnalysis, rawCandidates, allCandidates, mergedCandidates,
                remergedCandidates, filteredCandidates, cutCandidates, keepClips>>

\* mergeCutCandidates(inputRefs, threshold)
MergeRefs ==
    /\ pc = "call"
    /\ \E threshold \in 0..MaxThreshold :
          /\ mergeThreshold' = threshold
          /\ LET r == MergeOnHeap(heap, inputRefs, threshold)
             IN heap' = r.heap /\ resultRefs' = r.result
    /\ pc' = "mergedRefs"
    /\ UNCHANGED <<stageFrame, inputRefs, minimumConfidence, learnedStyle, stats>>

\* filterCutCandidates(inputRefs, minConfidence)
FilterRefs ==
    /\ pc = "call"
    /\ \E minConfidence \in MinConfidences :
          /\ minimumConfidence' = minConfidence
          /\ LET r == FilterOnHeap(heap, inputRefs, minConfidence)
             IN heap' = r.heap /\ resultRefs' = r.result
    /\ pc' = "filteredRefs"
    /\ UNCHANGED <<stageFrame, inputRefs, mergeThreshold, learnedStyle, stats>>

\* applyCutStyle(inputRefs, style)
StyleRefs ==
    /\ pc = "call"
    /\ \E style \in StageStyles :
          /\ learnedStyle' = style
          /\ LET r == StyleOnHeap(heap, inputRefs, style)
             IN heap' = r.heap /\ resultRefs' = r.result
    /\ pc' = "styledRefs"
    /\ UNCHANGED <<stageFrame, inputRefs, mergeThreshold, minimumConfidence, stats>>

\* generateKeepClips(inputRefs, totalDuration)
KeepClipRefs ==
    /\ pc = "call"
    /\ LET r == KeepClipsOnHeap(heap, inputRefs, videoAnalysis.duration, config)
       IN heap' = r.heap /\ resultRefs' = r.result
    /\ pc' = "keptRefs"
    /\ UNCHANGED <<stageFrame, inputRefs, mergeThreshold, minimumConfidence,
                   learnedStyle, stats>>

\* generateStatistics(inputRefs, resultRefs, totalDuration): reads only
StatisticsRefs ==
    /\ pc = "keptRefs"
    /\ stats' = generateStatistics(Deref(heap, inputRefs), Deref(heap, resultRefs),
                                   videoAnalysis.duration)
    /\ pc' = "countedRefs"
    /\ UNCHANGED <<stageFrame, heapVars, mergeThreshold, minimumConfidence,
                   learnedStyle>>

NextStages == MergeRefs \/ FilterRefs \/ StyleRefs \/ KeepClipRefs \/ StatisticsRefs

SpecStages == InitStages /\ [][NextStages]_vars

\* The result of a stage on references denotes what the stage computes on values
StagesAgreeWithValues ==
    LET input == Deref(heap, inputRefs)
        result == Deref(heap, resultRefs)
    IN /\ pc = "mergedRefs" => result = mergeCutCandidates(input, mergeThreshold)
       /\ pc = "filteredRefs" => result = filterCutCandidates(input, minimumConfidence)
       /\ pc = "styledRefs" => result = applyCutStyle(input, learnedStyle)
       /\ pc = "keptRefs" =>
              result = generateKeepClips(input, videoAnalysis.duration, config)

SameCandidate(a, b) ==
    /\ a.start = b.start
    /\ a.end = b.end
    /\ a.duration = b.duration
    /\ a.confidence = b.confidence
    /\ a.reason = b.reason

\* C25: mergeCutCandidates, filterCutCandidates, applyCutStyle,
\* generateKeepClips and generateStatistics do not mutate their inputs: when
\* the call returns, the list passed in holds the same objects and each of
\* them has the start, end, duration, confidence and reason it had before.
C25_StagesLeaveInputsAlone ==
    [][/\ inputRefs' = inputRefs
       /\ \A i \in 1..Len(inputRefs) :
             SameCandidate(heap'[inputRefs[i]], heap[inputRefs[i]])]_vars

\* A merge that fused the first candidate with a later one, into a new
\* object that differs from the first candidate
C25_Witness ==
    /\ pc = "mergedRefs"
    /\ Len(inputRefs) >= 2
    /\ Len(resultRefs) < Len(inputRefs)
    /\ resultRefs[1] \notin Range(inputRefs)
    /\ ~SameCandidate(heap[resultRefs[1]], heap[inputRefs[1]])


---------------------------------------------------------------------------
(* VideoAnalyzer.detectSilence: the stderr callback and the end event.     *)
(* A stderr line is [startMatch, endMatch], the numbers that the two       *)
(* regular expressions capture, NoMatch where the expression does not      *)
(* match.  Times are ticks of 0.05 s.  An interval is a record with the    *)
(* field start and, once closed, the fields end and duration.              *)

MaxLines == 3

MaxSilenceTime == 3

NoMatch == -1

\* ffmpeg prints a silence_start line, a silence_end line or something else
StderrLines ==
    {[startMatch |-> t, endMatch |-> NoMatch] : t \in 0..MaxSilenceTime}
    \cup {[startMatch |-> NoMatch, endMatch |-> t] : t \in 0..MaxSilenceTime}
    \cup {[startMatch |-> NoMatch, endMatch |-> NoMatch]}

\* The latest time that the lines so far have left in the list; ffmpeg
\* reports in the order of the stream
LatestTime(list) ==
    IF Len(list) = 0 THEN 0
    ELSE IF Has(list[Len(list)], "end") THEN list[Len(list)].end
    ELSE list[Len(list)].start

InOrder(line, list) ==
    /\ line.startMatch # NoMatch => line.startMatch >= LatestTime(list)
    /\ line.endMatch # NoMatch => line.endMatch >= LatestTime(list)

\* if (startMatch) silences.push({ start: parseFloat(startMatch[1]) })
AfterStartMatch(list, line) ==
    IF line.startMatch # NoMatch THEN Append(list, [start |-> line.startMatch])
    ELSE list

\* !lastSilence.end: end is undefined or 0
EndIsFalsy(silence) == ~Has(silence, "end") \/ silence.end = 0

\* if (endMatch && silences.length > 0) { if (!lastSilence.end) { ... } }
AfterEndMatch(list, line) ==
    IF line.endMatch # NoMatch /\ Len(list) > 0 /\ EndIsFalsy(list[Len(list)])
    THEN LET lastSilence == list[Len(list)]
         IN [list EXCEPT ![Len(list)] =
                [start |-> lastSilence.start, end |-> line.endMatch,
                 duration |-> line.endMatch - lastSilence.start]]
    ELSE list

InitSilence ==
    /\ silences = <<>>
    /\ silenceResult = <<>>
    /\ heap = <<>>
    /\ inputRefs = <<>>
    /\ resultRefs = <<>>
    /\ options = [styleUrls |-> 0, styleName |-> FALSE]
    /\ step = "idle"
    /\ started = <<>>
    /\ attempt = 0
    /\ lastError = NoError
    /\ tempFiles = 0
    /\ cleanupCalls = 0
    /\ outcome = NoOutcome
    /\ NoDetection
    /\ NoExport
    /\ pc = "listening"

silenceFrame == <<heapVars, pipelineVars, exportVars, config, videoAnalysis,
                  speechAnalysis, learnedStyle, mergeThreshold, minimumConfidence,
                  rawCandidates, allCandidates, mergedCandidates, remergedCandidates,
                  filteredCandidates, cutCandidates, keepClips, stats>>

\* .on('stderr', (stderrLine) => { ... })
OnStderr ==
    /\ pc = "listening"
    /\ \E line \in StderrLines :
          /\ InOrder(line, silences)
          /\ line.startMatch # NoMatch => Len(silences) < MaxLines
          /\ silences' = AfterEndMatch(AfterStartMatch(silences, line), line)
    /\ UNCHANGED <<silenceFrame, silenceResult, pc>>

\* .on('end', () => resolve(silences))
OnEnd ==
    /\ pc = "listening"
    /\ silenceResult' = silences
    /\ pc' = "resolved"
    /\ UNCHANGED <<silenceFrame, silences>>

\* .on('error', reject)
OnError ==
    /\ pc = "listening"
    /\ pc' = "rejected"
    /\ UNCHANGED <<silenceFrame, silenceVars>>

NextSilence == OnStderr \/ OnEnd \/ OnError

SpecSilence == InitSilence /\ [][NextSilence]_vars

\* C29: whatever silence_start and silence_end lines the stderr callback
\* of detectSilence receives before the end event (an end without a start,
\* two starts in a row, a silence that starts at 0, a last start without an
\* end), every interval of the resolved list has start, end and duration
\* defined, with end >= start and duration = end - start.
C29_ResolvedIntervalsComplete ==
    pc = "resolved" =>
        \A i \in 1..Len(silenceResult) :
            /\ Has(silenceResult[i], "start")
            /\ Has(silenceResult[i], "end")
            /\ Has(silenceResult[i], "duration")
            /\ silenceResult[i].end >= silenceResult[i].start
            /\ silenceResult[i].duration
                   = silenceResult[i].end - silenceResult[i].start


---------------------------------------------------------------------------
(* AutoEditPipeline.processVideo and, inside its speech-recognition step,  *)
(* SpeechRecognizer.transcribeSingleFile (the path of an audio file of at  *)
(* most 24 MB).  step is the step of processVideo that is running; pc is   *)
(* the position of transcribeSingleFile.  An error is [status, message],   *)
(* status 0 standing for an error without a status and the message being   *)
(* the sequence of its words.  The steps compute                           *)
(* what the other parts of this module describe; here only their order,    *)
(* their failure and the temporary files matter.                           *)

MaxStyleUrls == 1

MaxTempFiles == 1

\* const maxRetries = 3
maxRetries == 3

StepOrder == <<"videoAnalysis", "audioExtraction", "speechRecognition",
               "styleLoading", "cutDetection", "captionGeneration", "export">>

\* What openai.audio.transcriptions.create can reject with
ApiErrors ==
    {[status |-> 401, message |-> <<"unauthorized">>],
     [status |-> 403, message |-> <<"forbidden">>],
     [status |-> 413, message |-> <<"payload too large">>],
     [status |-> 429, message |-> <<"rate limited">>],
     [status |-> 500, message |-> <<"server error">>],
     [status |-> 0, message |-> <<"connection error">>]}

\* What a step other than the transcription throws
StepError(failed) == [status |-> 0, message |-> <<failed, "failed">>]

\* Variant of IsFatalStatus: no status ends the retries
NoFatalStatus(status) == FALSE

\* error.status === 401 || error.status === 403, error.status === 413
IsFatalStatus(status) == status \in {401, 403, 413}

\* Variant of CatchAndReturn: the error leaves processVideo
Rethrow(error) == [settled |-> TRUE, how |-> "rejected", error |-> error.message]

\* catch (error) { ...; return { success: false, error: error.message } }
CatchAndReturn(error) ==
    [settled |-> TRUE, how |-> "resolved", success |-> FALSE, error |-> error.message]

\* return { success: true, ... }
ReturnSuccess == [settled |-> TRUE, how |-> "resolved", success |-> TRUE]

\* options.styleUrls && options.styleUrls.length > 0, else options.styleName
LoadsStyle(opts) == opts.styleUrls > 0 \/ opts.styleName

LoadedStyle == [present |-> TRUE, hasCutPattern |-> TRUE, sceneChangeCorrelation |-> 50]

InitPipeline ==
    /\ options \in [styleUrls : 0..MaxStyleUrls, styleName : BOOLEAN]
    /\ tempFiles \in 0..MaxTempFiles
    /\ step = "idle"
    /\ started = <<>>
    /\ attempt = 0
    /\ lastError = NoError
    /\ cleanupCalls = 0
    /\ outcome = NoOutcome
    /\ heap = <<>>
    /\ inputRefs = <<>>
    /\ resultRefs = <<>>
    /\ silences = <<>>
    /\ silenceResult = <<>>
    /\ NoDetection
    /\ NoExport
    /\ pc = "notCalled"

pipelineFrame == <<heapVars, silenceVars, exportVars, options, config, videoAnalysis,
                   speechAnalysis, mergeThreshold, minimumConfidence, rawCandidates,
                   allCandidates, mergedCandidates, remergedCandidates,
                   filteredCandidates, cutCandidates, keepClips, stats>>

\* The running step ends and the next one is started
Advance(from, to) ==
    /\ step = from
    /\ step' = to
    /\ started' = Append(started, to)

\* processVideo is called: await this.videoAnalyzer.analyzeVideo(videoPath)
StartProcessVideo ==
    /\ Advance("idle", "videoAnalysis")
    /\ UNCHANGED <<pipelineFrame, learnedStyle, attempt, lastError, tempFiles,
                   cleanupCalls, outcome, pc>>

\* analyzeVideo resolves: await this.videoAnalyzer.extractAudio(videoPath)
AnalyzeVideoDone ==
    /\ Advance("videoAnalysis", "audioExtraction")
    /\ UNCHANGED <<pipelineFrame, learnedStyle, attempt, lastError, tempFiles,
                   cleanupCalls, outcome, pc>>

\* extractAudio resolves, the audio file is in tempDir: analyzeSpeech ->
\* transcribe -> transcribeSingleFile, first pass of the loop up to create
ExtractAudioDone ==
    /\ Advance("audioExtraction", "speechRecognition")
    /\ tempFiles' = tempFiles + 1
    /\ attempt' = 1
    /\ lastError' = NoError
    /\ pc' = "create"
    /\ UNCHANGED <<pipelineFrame, learnedStyle, cleanupCalls, outcome>>

\* create resolves: transcribeSingleFile returns the transcription
CreateSucceeds ==
    /\ step = "speechRecognition"
    /\ pc = "create"
    /\ pc' = "returned"
    /\ UNCHANGED <<pipelineFrame, pipelineVars, learnedStyle>>

\* create rejects: the catch block of transcribeSingleFile.  A fatal status
\* and the end of the loop throw; the error passes through transcribe and
\* analyzeSpeech to the catch block of processVideo.
CreateFails ==
    /\ step = "speechRecognition"
    /\ pc = "create"
    /\ \E error \in ApiErrors :
          /\ lastError' = error
          /\ IF IsFatalStatus(error.status)
             THEN /\ attempt' = attempt
                  /\ pc' = "threw"
                  /\ step' = "returned"
                  /\ outcome' = CatchAndReturn(error)
             ELSE /\ attempt' = attempt + 1
                  /\ IF attempt + 1 <= maxRetries
                     THEN /\ pc' = "backoff"
                          /\ UNCHANGED <<step, outcome>>
                     ELSE /\ pc' = "threw"
                          /\ step' = "returned"
                          /\ outcome' = CatchAndReturn(error)
    /\ UNCHANGED <<pipelineFrame, learnedStyle, started, tempFiles, cleanupCalls>>

\* setTimeout(resolve, 2000 * attempt) fires: the next create
BackoffElapsed ==
    /\ step = "speechRecognition"
    /\ pc = "backoff"
    /\ pc' = "create"
    /\ UNCHANGED <<pipelineFrame, pipelineVars, learnedStyle>>

\* analyzeSpeech resolves: style loading
AnalyzeSpeechDone ==
    /\ pc = "returned"
    /\ Advance("speechRecognition", "styleLoading")
    /\ UNCHANGED <<pipelineFrame, learnedStyle, attempt, lastError, tempFiles,
                   cleanupCalls, outcome, pc>>

\* learnFromVideos or loadStyle resolves, or no style is asked for: detectCuts
StyleDone ==
    /\ Advance("styleLoading", "cutDetection")
    /\ learnedStyle' = IF LoadsStyle(options) THEN LoadedStyle ELSE AbsentStyle
    /\ UNCHANGED <<pipelineFrame, attempt, lastError, tempFiles, cleanupCalls,
                   outcome, pc>>

\* detectCuts returns: generateCaptions
DetectCutsDone ==
    /\ Advance("cutDetection", "captionGeneration")
    /\ UNCHANGED <<pipelineFrame, learnedStyle, attempt, lastError, tempFiles,
                   cleanupCalls, outcome, pc>>

\* generateCaptions and generateStatistics return: exportAll
CaptionsDone ==
    /\ Advance("captionGeneration", "export")
    /\ UNCHANGED <<pipelineFrame, learnedStyle, attempt, lastError, tempFiles,
                   cleanupCalls, outcome, pc>>

\* exportAll resolves: await this.cleanup()
ExportDone ==
    /\ step = "export"
    /\ step' = "cleanup"
    /\ cleanupCalls' = cleanupCalls + 1
    /\ UNCHANGED <<pipelineFrame, learnedStyle, started, attempt, lastError,
                   tempFiles, outcome, pc>>

\* fs.emptyDir(this.tempDir) resolves: return { success: true, ... }
CleanupDone ==
    /\ step = "cleanup"
    /\ tempFiles' = 0
    /\ step' = "returned"
    /\ outcome' = ReturnSuccess
    /\ UNCHANGED <<pipelineFrame, learnedStyle, started, attempt, lastError,
                   cleanupCalls, pc>>

\* The running step throws or rejects (for the speech recognition: the part
\* of analyzeSpeech after the transcription; for the style: only when one is
\* loaded): the catch block of processVideo
StepFails ==
    /\ step \in Range(StepOrder) \cup {"cleanup"}
    /\ step = "speechRecognition" => pc = "returned"
    /\ step = "styleLoading" => LoadsStyle(options)
    /\ outcome' = CatchAndReturn(StepError(step))
    /\ step' = "returned"
    /\ UNCHANGED <<pipelineFrame, learnedStyle, started, attempt, lastError,
                   tempFiles, cleanupCalls, pc>>

NextPipeline ==
    \/ StartProcessVideo
    \/ AnalyzeVideoDone
    \/ ExtractAudioDone
    \/ CreateSucceeds
    \/ CreateFails
    \/ BackoffElapsed
    \/ AnalyzeSpeechDone
    \/ StyleDone
    \/ DetectCutsDone
    \/ CaptionsDone
    \/ ExportDone
    \/ CleanupDone
    \/ StepFails

SpecPipeline == InitPipeline /\ [][NextPipeline]_vars

\* Every awaited promise settles (the OpenAI client has a timeout, ffmpeg
\* ends with an end or an error event, the file system answers) and every
\* timer fires, so a step that can be taken is taken
FairSpecPipeline == SpecPipeline /\ WF_vars(NextPipeline)


IsPrefix(s, t) == Len(s) <= Len(t) /\ \A i \in 1..Len(s) : s[i] = t[i]

\* The step in which processVideo settles
Settles == ~outcome.settled /\ outcome'.settled

\* C21: processVideo is fail-fast.  Its steps are started in the order
\* video analysis, audio extraction, speech recognition, style loading, cut
\* detection, caption generation, export; when a step fails no later step is
\* started (exportAll is never called after a failed cut detection or
\* caption generation), and processVideo resolves with success: false and
\* the error instead of throwing.
C21_FailFast ==
    /\ [](IsPrefix(started, StepOrder))
    /\ [][Settles =>
            /\ outcome'.how = "resolved"
            /\ IF outcome'.success
               THEN started = StepOrder /\ step = "cleanup"
               ELSE /\ Has(outcome', "error")
                    /\ started' = started
                    /\ step = IF step = "cleanup" THEN "cleanup"
                              ELSE started[Len(started)]]_vars
    /\ [][outcome.settled => (started' = started /\ outcome' = outcome)]_vars
    /\ [](outcome.settled /\ Len(started) > 0
            /\ started[Len(started)] \in {"cutDetection", "captionGeneration"}
          => "export" \notin Range(started))
    /\ <>(outcome.settled /\ outcome.how = "resolved")

\* Cut detection failed: export was not started, the result is success: false
C21_Witness ==
    /\ outcome.settled
    /\ outcome.how = "resolved"
    /\ ~outcome.success
    /\ outcome.error = StepError("cutDetection").message
    /\ started = SubSeq(StepOrder, 1, 5)

\* C28: transcribeSingleFile makes at most 3 attempts.  It returns the first
\* successful result without another attempt; on an error with status 401,
\* 403 or 413 it throws that error at once; any other error is retried, and
\* when the third attempt fails the error of that attempt is thrown.  It
\* always ends with a result or an error.
C28_AtMostThreeAttempts ==
    /\ [](pc \in {"create", "backoff"} => attempt \in 1..3)
    /\ [][(pc' = "create" /\ pc # "create") =>
            \/ pc = "notCalled" /\ attempt' = 1
            \/ pc = "backoff" /\ attempt' = attempt]_vars
    /\ [][(pc \in {"returned", "threw"}) => (pc' = pc /\ attempt' = attempt)]_vars
    /\ [][(pc = "create" /\ pc' = "returned") =>
            (attempt' = attempt /\ lastError' = lastError)]_vars
    /\ [][(pc = "create" /\ pc' \in {"backoff", "threw"}) =>
            IF lastError'.status \in {401, 403, 413}
            THEN /\ pc' = "threw"
                 /\ attempt' = attempt
                 /\ outcome'.settled
                 /\ outcome'.error = lastError'.message
            ELSE IF attempt < 3
            THEN pc' = "backoff" /\ attempt' = attempt + 1 /\ ~outcome'.settled
            ELSE /\ pc' = "threw"
                 /\ outcome'.settled
                 /\ outcome'.error = lastError'.message]_vars
    /\ (pc = "create") ~> (pc \in {"returned", "threw"})

\* Three attempts failed with errors that are retried; the last is thrown
C28_Witness ==
    /\ pc = "threw"
    /\ attempt > maxRetries
    /\ lastError.status = 500
    /\ outcome.settled
    /\ outcome.error = lastError.message

\* C30: whenever processVideo has extracted the audio into the temporary
\* directory, VideoAnalyzer.cleanup has been called by the time processVideo
\* resolves, on success and when a later step fails.
C30_CleanupBeforeResolve ==
    (outcome.settled /\ "speechRecognition" \in Range(started)) => cleanupCalls >= 1

====
